---- MODULE Spec2Model ----
(***************************************************************************)
(* A model of the command registry, the command dispatch path and the      *)
(* response envelope of the Remote-Task-Manager client.                    *)
(*                                                                         *)
(* Python values are modelled as follows.  A dict is a function whose      *)
(* DOMAIN is its key set.  A str is a string; a formatted message is the   *)
(* sequence of its pieces (an f-string's literal parts and interpolated    *)
(* values), so "the message contains f" and "the message begins with the   *)
(* name" are statements about that sequence.  An exception is a record     *)
(* with its type and its str().  A call's outcome is a record saying       *)
(* whether it raised, and what it returned.                                *)
(***************************************************************************)
EXTENDS Integers, Sequences, FiniteSets, TLC

VARIABLES
    registered_commands,  \* commands/Command.py: _registered_commands
    command_endpoints,    \* CommandsLoader.command_endpoints
    commands_dir,         \* the 'commands' directory on disk and what imports find
    phase,                \* "startup" until discover_commands has run, then "serving"
    discovery,            \* the call of discover_commands under way: its position and its locals
    last,                 \* the last operation performed and what it returned
    api_dir,              \* the 'api' directory on disk and what imports find
    url_map,              \* Flask's app.url_map: the rules added by add_url_rule
    executor,             \* which ProgramExecutor class this is, and its attributes
    process_counter,      \* ProgramExecutor._process_counter
    running_processes,    \* ProgramExecutor.running_processes: id -> result dict
    calls,                \* the callers inside execute_program and kill
    threads,              \* the execution_thread of each process id
    popen                 \* the external program behind each subprocess.Popen

\* the state of a ProgramExecutor and of the threads that use it
executorVars ==
    <<executor, process_counter, running_processes, calls, threads, popen>>

\* the directories, the registries and the routes
loaderVars ==
    <<registered_commands, command_endpoints, commands_dir, phase, discovery,
      api_dir,
      url_map>>

vars == <<loaderVars, last, executorVars>>

----------------------------------------------------------------------------
(* Bounds *)

\* number of distinct handler objects a Command can point to
NumFunctions == 2

----------------------------------------------------------------------------
(* Python helpers *)

EmptyDict == [k \in {} |-> ""]

\* no call of discover_commands is under way, and none has returned yet
NoPass ==
    [pc |-> "idle", i |-> 0, listing |-> <<>>, registered_commands |-> EmptyDict,
     passes |-> 0]

\* dict.update: keys of b override keys of a
DictUpdate(a, b) ==
    [k \in (DOMAIN a) \cup (DOMAIN b) |-> IF k \in DOMAIN b THEN b[k] ELSE a[k]]

\* a dict without one key (dict.pop(key, None) on a copy)
DictWithout(d, key) == [k \in (DOMAIN d) \ {key} |-> d[k]]

\* Python truthiness of a str
Falsy(v) == v = ""

Exc(type, msg) == [type |-> type, msg |-> msg]

NoExc == Exc("", <<>>)

\* does the message contain the piece s
Contains(msg, s) == \E i \in 1..Len(msg) : msg[i] = s

----------------------------------------------------------------------------
(* utils/APIResponse.py: the response envelope *)

ErrorClasses ==
    {"ErrorResponse", "NotFoundResponse", "ValidationErrorResponse",
     "InternalErrorResponse", "BadRequestResponse", "UnauthorizedResponse",
     "ForbiddenErrorResponse", "BadMethodErrorResponse"}

SuccessClasses ==
    {"SuccessResponse", "ProcessResponse", "ProgramResponse",
     "SystemInfoResponse", "LogResponse"}

\* APIResponse.__init__
APIResponseInit(cls, status, message, code, data) ==
    [cls |-> cls, status |-> status, message |-> message, code |-> code,
     data |-> data]

\* SuccessResponse.__init__: data None becomes {}
SuccessResponseCls(cls, message, data) ==
    APIResponseInit(cls, "success", message, 200,
                    IF data = "None" THEN "{}" ELSE data)

SuccessResponse(message, data) ==
    SuccessResponseCls("SuccessResponse", message, data)

ProcessResponse(processes, message) ==
    SuccessResponseCls("ProcessResponse",
                       IF message = <<>> THEN <<"Process operation successful">>
                       ELSE message, processes)

ProgramResponse(programs) ==
    SuccessResponseCls("ProgramResponse", <<"Program operation successful">>,
                       programs)

SystemInfoResponse(system_data, message) ==
    SuccessResponseCls("SystemInfoResponse", <<"System information">>,
                       system_data)

LogResponse(logs) ==
    SuccessResponseCls("LogResponse", <<"System logs retrieved">>, logs)

\* ErrorResponse.__init__: no data
ErrorResponseCls(cls, message, code) ==
    APIResponseInit(cls, "error", message, code, "None")

ErrorResponse(message, code) == ErrorResponseCls("ErrorResponse", message, code)

\* ErrorResponse(message): the default code
ErrorResponseDefault(message) == ErrorResponse(message, 500)

NotFoundResponse(resource) ==
    ErrorResponseCls("NotFoundResponse", <<resource, " not found">>, 404)

ValidationErrorResponse(field) ==
    ErrorResponseCls("ValidationErrorResponse",
                     <<"Missing or invalid field: ", field>>, 400)

InternalErrorResponse(error) ==
    ErrorResponseCls("InternalErrorResponse",
                     <<"Internal server error: ">> \o error, 500)

BadRequestResponse(message) ==
    ErrorResponseCls("BadRequestResponse", <<"Bad request: ">> \o message, 400)

UnauthorizedResponse(message) ==
    ErrorResponseCls("UnauthorizedResponse",
                     <<"Unauthorized access: ">> \o message, 401)

\* super().__init__(message, data) hands data over as the code; the next
\* statement overwrites the code with 403
ForbiddenErrorResponse(message, data) ==
    [ErrorResponseCls("ForbiddenErrorResponse", message, data)
        EXCEPT !.code = 403]

BadMethodErrorResponse(method, expected_method) ==
    ErrorResponseCls("BadMethodErrorResponse",
                     <<"Unsupported method: ", method,
                       ". Expected method: ", expected_method>>, 405)

\* APIResponse.to_dict: an ErrorResponse carries its message under "error",
\* the data key is present only when data is not None
to_dict(r) ==
    [status |-> r.status,
     key |-> IF r.cls \in ErrorClasses THEN "error" ELSE "message",
     text |-> r.message,
     data |-> r.data]

\* what goes on the wire: a body and the HTTP status code
Wire(body, code) ==
    [http |-> code, status |-> body.status, key |-> body.key,
     text |-> body.text, data |-> body.data]

\* APIResponse.to_response
to_response(r) == Wire(to_dict(r), r.code)

NoWire == [http |-> 0, status |-> "", key |-> "", text |-> <<>>, data |-> "None"]

----------------------------------------------------------------------------
(* Outcome of calling a view, a handler or a helper *)

Returned(resp, handlerCalls, helperCalls, handlerArgs) ==
    [raised |-> FALSE, exc |-> NoExc, resp |-> resp,
     handlerCalls |-> handlerCalls, helperCalls |-> helperCalls,
     handlerArgs |-> handlerArgs]

Raised(exc, handlerCalls, helperCalls, handlerArgs) ==
    [raised |-> TRUE, exc |-> exc, resp |-> NoWire,
     handlerCalls |-> handlerCalls, helperCalls |-> helperCalls,
     handlerArgs |-> handlerArgs]

----------------------------------------------------------------------------
(* commands/Command.py: the Command class *)

\* Command.__init__: _args_types is assigned only when args_types is None;
\* a Command built with an argument list has no _args_types attribute
CommandInit(name, function, args_types_is_none) ==
    [cls |-> "Command", name |-> name, function |-> function,
     args_attr |-> IF args_types_is_none THEN "empty_list" ELSE "unset"]

\* Command.__getitem__: cmd[item] raises (exc) or has a value (val); only
\* 'name', 'title', 'description' and 'args' are items, and 'args' reads the
\* attribute _args_types
CommandGetItem(cmd, item) ==
    IF item = "name" THEN [exc |-> NoExc, val |-> cmd.name]
    ELSE IF item \in {"title", "description"} THEN [exc |-> NoExc, val |-> ""]
    ELSE IF item = "args" THEN
        IF cmd.args_attr = "unset"
        THEN [exc |-> Exc("AttributeError",
                          <<"'Command' object has no attribute '_args_types'">>),
              val |-> <<>>]
        ELSE [exc |-> NoExc, val |-> <<>>]
    ELSE [exc |-> Exc("KeyError",
                      <<"'", item, "' is not a valid command attribute.">>),
          val |-> <<>>]

\* Command.to_dict reads self._args_types
CommandToDictExc(cmd) ==
    IF cmd.args_attr = "unset"
    THEN Exc("AttributeError",
             <<"'Command' object has no attribute '_args_types'">>)
    ELSE NoExc

\* an object that is not a Command (add_command's isinstance test fails)
NotACommand == [cls |-> "str", name |-> "", function |-> 0, args_attr |-> "unset"]

----------------------------------------------------------------------------
(* commands/Command.py: the module-level registry _registered_commands *)

\* names under which commands are registered: the command directories
CommandNames == {"get_specs", "show_popup", "shutdown"}

\* names looked up: registered ones, an unknown one, the empty string and
\* get_command's default "None"
LookupNames == CommandNames \cup {"nope", "", "None"}

\* what a registry function returns: a (value, code) pair whose value is a
\* message, a Command or a dict; or a bare Command; (code is 0 when bare)
RetPair(msg, code) ==
    [shape |-> "pair", code |-> code, msg |-> msg, cmd |-> NotACommand,
     dict |-> EmptyDict]

RetDict(d, code) ==
    [shape |-> "pair", code |-> code, msg |-> <<>>, cmd |-> NotACommand,
     dict |-> d]

RetBare(cmd) ==
    [shape |-> "bare", code |-> 0, msg |-> <<>>, cmd |-> cmd, dict |-> EmptyDict]

\* a dict with one more (or one replaced) item: d[key] = value
DictSet(d, key, value) ==
    [k \in (DOMAIN d) \cup {key} |-> IF k = key THEN value ELSE d[k]]

\* the bug a registry that overwrites would have: no conflict test
add_command_overwrite(reg, command) ==
    IF command.cls # "Command"
    THEN [reg |-> reg, ret |-> RetPair(<<"Invalid command object provided.">>, 400)]
    ELSE [reg |-> DictSet(reg, command.name, command),
          ret |-> RetPair(<<"Command '", command.name,
                            "' registered successfully.">>, 200)]

\* add_command: the registry afterwards and the (message, code) returned
add_command(reg, command) ==
    IF command.cls # "Command"
    THEN [reg |-> reg, ret |-> RetPair(<<"Invalid command object provided.">>, 400)]
    ELSE IF command.name \in DOMAIN reg
    THEN [reg |-> reg,
          ret |-> RetPair(<<"Command '", command.name,
                            "' is already registered.">>, 409)]
    ELSE [reg |-> DictSet(reg, command.name, command),
          ret |-> RetPair(<<"Command '", command.name,
                            "' registered successfully.">>, 200)]

\* get_all_commands
get_all_commands(reg) ==
    IF DOMAIN reg = {}
    THEN RetDict(EmptyDict, 404)
    ELSE RetDict(reg, 200)

\* get_command (name is a str): the last statement returns the Command
\* itself, not a pair
get_command(reg, name) ==
    IF Falsy(name)
    THEN RetPair(<<"Invalid command name provided.">>, 400)
    ELSE IF name = "None"
    THEN RetPair(<<"Command name must be a valid existing command name. Got '",
                   name, "'">>, 400)
    ELSE IF name \notin DOMAIN reg
    THEN RetPair(<<"Command '", name, "' not found.">>, 404)
    ELSE RetBare(reg[name])

\* the objects handed to add_command
CommandArgs ==
    {CommandInit(n, f, b) : n \in CommandNames, f \in 1..NumFunctions,
                            b \in BOOLEAN}
    \cup {NotACommand}

AddCommand ==
    \E command \in CommandArgs :
        LET r == add_command(registered_commands, command) IN
        /\ registered_commands' = r.reg
        /\ last' = [op |-> "add_command", arg |-> command, ret |-> r.ret]
        /\ UNCHANGED <<command_endpoints, commands_dir, phase, discovery, api_dir, url_map,
                   executorVars>>

GetAllCommands ==
    /\ last' = [op |-> "get_all_commands",
                ret |-> get_all_commands(registered_commands)]
    /\ UNCHANGED <<registered_commands, command_endpoints, commands_dir, phase, discovery, api_dir, url_map,
                   executorVars>>

GetCommand ==
    \E name \in LookupNames :
        /\ last' = [op |-> "get_command", arg |-> name,
                    ret |-> get_command(registered_commands, name)]
        /\ UNCHANGED <<registered_commands, command_endpoints, commands_dir, phase, discovery, api_dir, url_map,
                   executorVars>>

\* ProgramExecutor.__init__: no process yet; no thread is inside the executor
InitNoExecutor ==
    /\ executor = [module |-> "commands", has_logger |-> TRUE, lock |-> 0]
    /\ process_counter = 0
    /\ running_processes = EmptyDict
    /\ calls = EmptyDict
    /\ threads = EmptyDict
    /\ popen = EmptyDict

\* Flask(__name__): an app without rules, and no api directory looked at
InitNoApi ==
    /\ api_dir = [exists |-> FALSE, listing |-> <<>>]
    /\ url_map = {}

\* the module is imported: the registry is the empty dict
InitRegistry ==
    /\ registered_commands = EmptyDict
    /\ command_endpoints = EmptyDict
    /\ commands_dir = [exists |-> FALSE, entries |-> {}, tkinter |-> TRUE]
    /\ phase = "startup"
    /\ discovery = NoPass
    /\ last = [op |-> "init"]
    /\ InitNoApi
    /\ InitNoExecutor

NextRegistry == AddCommand \/ GetAllCommands \/ GetCommand

SpecRegistry == InitRegistry /\ [][NextRegistry]_vars

----------------------------------------------------------------------------
(* commands/<name>/command.py: the command units *)

\* one entry of a unit's argument list; get_specs's entry has no 'name' key
ArgDef(has_name, name, required) ==
    [has_name |-> has_name, name |-> name, required |-> required]

\* the argument list each unit's register() hands to its CommandEndpoint
ArgSpec(unit) ==
    IF unit = "shutdown" THEN << ArgDef(TRUE, "time", FALSE) >>
    ELSE IF unit = "get_specs" THEN << ArgDef(FALSE, "", FALSE) >>
    ELSE << ArgDef(TRUE, "message", TRUE), ArgDef(TRUE, "title", FALSE) >>

\* CommandEndpoint.__init__: the command name is the name of the directory
\* holding command.py; args_types None is replaced by [] before it is handed
\* to Command, so Command never sees None
CommandEndpointInit(directory, args_types) ==
    [unit |-> directory,
     command |-> CommandInit(directory, directory, FALSE)]

\* the bug a unit that names itself as blueprint_command.py does would
\* have: the entry filename without its extension
unit_command_name_from_filename(file) ==
    IF file[Len(file)] = "command.py" THEN "command" ELSE file[Len(file)]

\* command_name of CommandEndpoint.__init__, from the __file__ of the unit's
\* module (a path is the sequence of its segments):
\* os.path.basename(os.path.dirname(__file__))
unit_command_name(file) ==
    LET command_directory == SubSeq(file, 1, Len(file) - 1) IN
    command_directory[Len(command_directory)]

\* register() of a unit: (endpoint, 200); the endpoint is built in the
\* module commands/<unit>/command.py
register(unit) ==
    [endpoint |->
        CommandEndpointInit(
            unit_command_name(<<"commands", unit, "command.py">>),
            ArgSpec(unit)),
     code |-> 200]

\* what a helper_function does: raises, or returns (payload, code)
HelperReturned(payload, code) ==
    [raised |-> FALSE, exc |-> NoExc, payload |-> payload, code |-> code]

HelperRaised(exc) ==
    [raised |-> TRUE, exc |-> exc, payload |-> "", code |-> 0]

\* what the machine does to a helper: "ok", or one fault
HelperEnvs == {"ok", "FileNotFoundError", "CalledProcessError", "OSError",
               "TkNotReady"}

\* shutdown.helper_function: subprocess.run, every exception is caught
shutdown_helper_function(kwargs, env) ==
    IF env = "FileNotFoundError"
    THEN HelperReturned("Shutdown command not found.", 500)
    ELSE IF env = "CalledProcessError"
    THEN HelperReturned("Shutdown command failed.", 500)
    ELSE HelperReturned("PC shutdown command issued successfully.", 200)

\* get_specs.helper_function: writes the specs file; open() may raise
get_specs_helper_function(kwargs, env) ==
    IF env = "OSError"
    THEN HelperRaised(Exc("OSError", <<"cannot open system_specs.txt">>))
    ELSE HelperReturned("specs", 200)

\* show_popup.helper_function: needs the Tk root; a message of None is
\* queued and then fails at message_text[:30], which is caught
show_popup_helper_function(kwargs, env) ==
    IF env = "TkNotReady"
    THEN HelperReturned("Tkinter GUI not ready.", 500)
    ELSE IF "message" \notin DOMAIN kwargs
    THEN HelperReturned("Failed to queue message", 500)
    ELSE HelperReturned("Message queued for display.", 200)

\* index of the first declared argument the loop stops at: one that is
\* required and either has no 'name' key or is not among kwargs; 0 if none
FirstStop(required_args, kwargs) ==
    LET stops == {i \in 1..Len(required_args) :
                    /\ required_args[i].required
                    /\ \/ ~required_args[i].has_name
                       \/ required_args[i].name \notin DOMAIN kwargs}
    IN IF stops = {} THEN 0 ELSE CHOOSE i \in stops : \A j \in stops : i <= j

\* the end of CommandEndpoint.__call__ of shutdown and of get_specs: the
\* (payload, code) of helper_function becomes a success or an error envelope
template_wrap(name, h) ==
    IF h.code = 200
    THEN to_response(SuccessResponse(
            <<name, " - Command executed successfully.">>, h.payload))
    ELSE to_response(ErrorResponse(
            <<name, " - Failed to execute the command: ", h.payload>>, h.code))

\* CommandEndpoint.__call__ of shutdown and of get_specs (the same text):
\* reads self.command['args_types'], checks the required arguments, calls
\* helper_function and wraps its (payload, code)
template_call(ep, kwargs, h) ==
    LET args == CommandGetItem(ep.command, "args_types")
        stop == FirstStop(args.val, kwargs)
        name == CommandGetItem(ep.command, "name").val
    IN  IF args.exc # NoExc THEN Raised(args.exc, 1, 0, kwargs)
        ELSE IF stop # 0 /\ ~args.val[stop].has_name
        THEN Raised(Exc("KeyError", <<"'name'">>), 1, 0, kwargs)
        ELSE IF stop # 0
        THEN Returned(to_response(BadRequestResponse(
                        <<"command.py", " - Missing required argument: ",
                          args.val[stop].name>>)), 1, 0, kwargs)
        ELSE IF h.raised THEN Raised(h.exc, 1, 1, kwargs)
        ELSE Returned(template_wrap(name, h), 1, 1, kwargs)

shutdown_call(ep, kwargs, env) ==
    template_call(ep, kwargs, shutdown_helper_function(kwargs, env))

get_specs_call(ep, kwargs, env) ==
    template_call(ep, kwargs, get_specs_helper_function(kwargs, env))

\* the end of CommandEndpoint.__call__ of show_popup: an error from the
\* helper is wrapped with the default code and without the command name
show_popup_wrap(command_name, h) ==
    IF h.code # 200
    THEN to_response(ErrorResponseDefault(<<h.payload>>))
    ELSE to_response(SuccessResponse(
            <<"Command '", command_name,
              "' executed successfully. Message sent to client for display.">>,
            h.payload))

\* CommandEndpoint.__call__ of show_popup
show_popup_call(ep, kwargs, env) ==
    LET command_name == CommandGetItem(ep.command, "name").val
        args == CommandGetItem(ep.command, "args_types")
        stop == FirstStop(args.val, kwargs)
        h == show_popup_helper_function(kwargs, env)
    IN  IF args.exc # NoExc THEN Raised(args.exc, 1, 0, kwargs)
        ELSE IF stop # 0 /\ ~args.val[stop].has_name
        THEN Raised(Exc("KeyError", <<"'name'">>), 1, 0, kwargs)
        ELSE IF stop # 0
        THEN Returned(to_response(ErrorResponse(
                        <<"command.py", " - Missing required argument: '",
                          args.val[stop].name, "' for command '",
                          command_name, "'.">>, 400)), 1, 0, kwargs)
        ELSE Returned(show_popup_wrap(command_name, h), 1, 1, kwargs)

\* calling a registered endpoint object: endpoint(**kwargs)
EndpointCall(ep, kwargs, env) ==
    IF ep.unit = "shutdown" THEN shutdown_call(ep, kwargs, env)
    ELSE IF ep.unit = "get_specs" THEN get_specs_call(ep, kwargs, env)
    ELSE show_popup_call(ep, kwargs, env)

----------------------------------------------------------------------------
(* utils/commands_utils.py: CommandsLoader *)

\* children of the commands directory that are directories
CommandDirectories ==
    CommandNames \cup {"blueprint_command", "__pycache__", "disabled"}

\* directories that hold a command.py
WithEntryFile == CommandNames \cup {"blueprint_command"}

\* children that are never command units: two modules and three directories
OtherEntries ==
    {"Command.py", "legacy_to_command.py", "blueprint_command", "__pycache__",
     "disabled"}

\* excluded_dirs of discover_commands
excluded_dirs == {"__pycache__", "blueprint_command", "disabled"}

\* importing commands.<name>.command: show_popup imports tkinter
ImportOutcome(dir, name) ==
    IF name = "show_popup" /\ ~dir.tkinter THEN "ImportError" ELSE "ok"

\* discover_commands: the new command_endpoints and the code returned; a
\* child is registered under its directory name when it is a directory
\* with a command.py, is not excluded, imports, and registers with 200
discover_commands(dir) ==
    IF ~dir.exists THEN [endpoints |-> EmptyDict, code |-> 404]
    ELSE LET found == {n \in dir.entries :
                          /\ n \in CommandDirectories
                          /\ n \in WithEntryFile
                          /\ n \notin excluded_dirs
                          /\ ImportOutcome(dir, n) = "ok"
                          /\ register(n).code = 200}
         IN [endpoints |-> [n \in found |-> register(n).endpoint],
             code |-> 200]

\* isinstance(command_endpoint, CommandEndpoint): the class meant is the one
\* of commands.blueprint_command.command; every unit defines its own class
IsBlueprintCommandEndpoint(ep) == ep.unit = "blueprint_command"

RetNone ==
    [shape |-> "none", code |-> 0, msg |-> <<>>, cmd |-> NotACommand,
     dict |-> EmptyDict]

RetEndpoint(ep, code) ==
    [shape |-> "pair", code |-> code, msg |-> <<>>, cmd |-> ep.command,
     dict |-> EmptyDict]

\* CommandsLoader.__getitem__: an empty name returns every endpoint with
\* 200; a registered endpoint of the blueprint class returns (endpoint, 200);
\* every other path falls off the end of the function
CommandsLoaderGetItem(endpoints, name) ==
    IF Falsy(name) THEN RetDict(endpoints, 200)
    ELSE IF name \in DOMAIN endpoints
            /\ IsBlueprintCommandEndpoint(endpoints[name])
    THEN RetEndpoint(endpoints[name], 200)
    ELSE RetNone

\* CommandsLoader.__call__(command, **kwargs)
CommandsLoaderCall(endpoints, command, kwargs, env) ==
    IF Falsy(command)
    THEN Returned(to_response(ErrorResponse(
                    <<"Command name cannot be empty.">>, 400)), 0, 0, EmptyDict)
    ELSE IF command \notin DOMAIN endpoints
    THEN Raised(Exc("KeyError", <<"'", command, "'">>), 0, 0, EmptyDict)
    ELSE EndpointCall(endpoints[command], DictWithout(kwargs, "command"), env)

----------------------------------------------------------------------------
(* Requests and utils/APIResponse.py: error_handler *)

CommandValues == CommandNames \cup {"nope", ""}

BodyKeys == {"command", "message"}

ValuesOf(k) == IF k = "command" THEN CommandValues ELSE {"hi"}

\* the JSON objects and query strings a request carries
Dicts(keys) ==
    UNION { {d \in [D -> CommandValues \cup {"hi"}] :
                \A k \in D : d[k] \in ValuesOf(k)} : D \in SUBSET keys }

\* body_kind: "none" (no JSON content type), "dict" (a JSON object),
\* "list" (the JSON value []), "malformed" (JSON content type, bad syntax)
Request(query, body_kind, body) ==
    [query |-> query, body_kind |-> body_kind, body |-> body]

Requests ==
    {Request(q, "dict", b) :
        q \in {EmptyDict, [k \in {"command"} |-> "shutdown"]},
        b \in Dicts(BodyKeys)}
    \cup {Request(q, k, EmptyDict) :
        q \in {EmptyDict, [k \in {"command"} |-> "shutdown"]},
        k \in {"none", "list", "malformed"}}

\* the wrapper's result: the response sent, whether an exception was caught
\* inside, whether one left the wrapper
Served(out, caught, escaped, resp, handler_args) ==
    [escaped |-> escaped, caught |-> caught, exc |-> out.exc, resp |-> resp,
     handlerCalls |-> out.handlerCalls, helperCalls |-> out.helperCalls,
     handlerArgs |-> out.handlerArgs, merged |-> handler_args]

\* jsonify({"status": "error", "message": str(e)}), 500
CaughtResponse(exc) ==
    [http |-> 500, status |-> "error", key |-> "message", text |-> exc.msg,
     data |-> "None"]

----------------------------------------------------------------------------
(* The views behind the routes *)

\* request.get_json() called by a view: raises on a request without a JSON
\* content type (or, with an older Flask, returns None); [] for a JSON list
GetJsonRaises(req, env) == req.body_kind = "none" /\ env # "GetJsonNone"

\* api/commands/execution.py: handler(**kwargs); SERVER_SOCKET is the
\* started RemoteClient, whose commands_loader holds endpoints
execution_handler(kwargs, endpoints, env) ==
    IF "command" \notin DOMAIN kwargs
    THEN Returned(to_response(ErrorResponse(<<"Command name is required">>, 400)),
                  0, 0, EmptyDict)
    ELSE CommandsLoaderCall(endpoints, kwargs["command"],
                            DictWithout(kwargs, "command"), env)

\* RemoteClient.command_endpoint(self): the view of /api/command takes no
\* keyword argument, and reads self.commands, which RemoteClient never sets
command_endpoint(kwargs, req, env) ==
    IF DOMAIN kwargs # {}
    THEN Raised(Exc("TypeError",
                    <<"command_endpoint() got an unexpected keyword argument '",
                      CHOOSE k \in DOMAIN kwargs : TRUE, "'">>), 0, 0, EmptyDict)
    ELSE IF GetJsonRaises(req, env)
    THEN Raised(Exc("UnsupportedMediaType", <<"415 Unsupported Media Type">>),
                0, 0, EmptyDict)
    ELSE IF req.body_kind # "dict" \/ DOMAIN req.body = {}
            \/ "command" \notin DOMAIN req.body
    THEN Returned(Wire(to_dict(ErrorResponseDefault(<<"Command not provided">>)),
                       400), 0, 0, EmptyDict)
    ELSE Raised(Exc("AttributeError",
                    <<"'RemoteClient' object has no attribute 'commands'">>),
                0, 0, EmptyDict)

\* api/commands/list.py: handler(**kwargs)
list_handler(kwargs, endpoints) ==
    LET got == CommandsLoaderGetItem(endpoints, "")
        failing == {n \in DOMAIN got.dict :
                       CommandToDictExc(got.dict[n].command) # NoExc}
    IN  IF got.code # 200
        THEN Returned(to_response(ErrorResponse(<<"No commands registered">>, 404)),
                      0, 0, EmptyDict)
        ELSE IF failing # {}
        THEN Raised(CommandToDictExc(got.dict[CHOOSE n \in failing : TRUE].command),
                    0, 0, EmptyDict)
        ELSE Returned(to_response(SuccessResponse(
                        <<"Commands retrieved successfully">>, "list")),
                      0, 0, EmptyDict)

\* api/show_message_window.py: handler(): opens a Tk window, which fails
\* without a display
show_message_window_handler(kwargs, req, env) ==
    IF DOMAIN kwargs # {}
    THEN Raised(Exc("TypeError",
                    <<"handler() got an unexpected keyword argument '",
                      CHOOSE k \in DOMAIN kwargs : TRUE, "'">>), 0, 0, EmptyDict)
    ELSE IF GetJsonRaises(req, env)
    THEN Raised(Exc("UnsupportedMediaType", <<"415 Unsupported Media Type">>),
                0, 0, EmptyDict)
    ELSE IF req.body_kind # "dict"
    THEN Raised(Exc("AttributeError", <<"object has no attribute 'get'">>),
                0, 0, EmptyDict)
    ELSE IF env = "TclError"
    THEN Raised(Exc("TclError", <<"no display name and no $DISPLAY">>),
                0, 1, EmptyDict)
    ELSE Returned(Wire(to_dict(SuccessResponse(
                    <<"Message delivered successfully">>, "None")), 200),
                  0, 1, EmptyDict)

\* func(**handler_args): the view that error_handler wraps for a route
View(route, handler_args, req, endpoints, env) ==
    IF route = "api/commands/execution"
    THEN execution_handler(handler_args, endpoints, env)
    ELSE IF route = "api/command"
    THEN command_endpoint(handler_args, req, env)
    ELSE IF route = "api/commands/list"
    THEN list_handler(handler_args, endpoints)
    ELSE show_message_window_handler(handler_args, req, env)

\* the bug a wrapper that merges the query parameters last would have
handler_args_query_last(kwargs, req) ==
    DictUpdate(IF req.body_kind = "dict" THEN DictUpdate(kwargs, req.body)
               ELSE kwargs,
               req.query)

\* handler_args of the wrapper: a copy of the URL parameters, updated with
\* the query parameters, then with the fields of the body when the body is
\* a JSON object
handler_args(kwargs, req) ==
    LET with_query == DictUpdate(kwargs, req.query) IN
    IF req.body_kind = "dict" THEN DictUpdate(with_query, req.body)
    ELSE with_query

\* the bug a wrapper without its try/except would have
error_handler_no_except(route, kwargs, req, endpoints, env) ==
    LET with_query == DictUpdate(kwargs, req.query)
        args == handler_args(kwargs, req)
        bad_json == Raised(Exc("BadRequest", <<"400 Bad Request">>), 0, 0,
                           EmptyDict)
        out == View(route, args, req, endpoints, env)
    IN  IF req.body_kind = "malformed"
        THEN Served(bad_json, FALSE, TRUE, NoWire, with_query)
        ELSE IF out.raised
        THEN Served(out, FALSE, TRUE, NoWire, args)
        ELSE Served(out, FALSE, FALSE, out.resp, args)

\* error_handler(func) serving a request on a route: merge the URL
\* parameters, the query parameters and a JSON object body (later ones
\* override), call func(**handler_args), and turn any exception raised on
\* the way into a 500 response
error_handler(route, kwargs, req, endpoints, env) ==
    LET with_query == DictUpdate(kwargs, req.query)
        args == handler_args(kwargs, req)
        bad_json == Raised(Exc("BadRequest", <<"400 Bad Request">>), 0, 0,
                           EmptyDict)
        out == View(route, args, req, endpoints, env)
    IN  IF req.body_kind = "malformed"
        THEN Served(bad_json, TRUE, FALSE, CaughtResponse(bad_json.exc),
                    with_query)
        ELSE IF out.raised
        THEN Served(out, TRUE, FALSE, CaughtResponse(out.exc), args)
        ELSE Served(out, FALSE, FALSE, out.resp, args)

----------------------------------------------------------------------------
(* Startup and requests *)

\* the commands directories considered: missing; any subset of the three
\* command units next to the other children; all three without tkinter
CommandsDirs ==
    {[exists |-> FALSE, entries |-> {}, tkinter |-> TRUE]}
    \cup {[exists |-> TRUE, entries |-> OtherEntries \cup U, tkinter |-> TRUE] :
            U \in SUBSET CommandNames}
    \cup {[exists |-> TRUE, entries |-> OtherEntries \cup CommandNames,
           tkinter |-> FALSE]}

\* RemoteClient._register_commands: the loader is built and discovers
DiscoverCommands ==
    /\ phase = "startup"
    /\ LET d == discover_commands(commands_dir) IN
        /\ command_endpoints' = d.endpoints
        /\ last' = [op |-> "discover_commands", code |-> d.code]
    /\ phase' = "serving"
    /\ UNCHANGED <<registered_commands, commands_dir, discovery, api_dir, url_map,
                   executorVars>>

\* POST api/commands/execution
ExecutionRequest ==
    /\ phase = "serving"
    /\ \E req \in Requests, env \in HelperEnvs :
        last' = [op |-> "request", route |-> "api/commands/execution",
                 req |-> req, env |-> env,
                 out |-> error_handler("api/commands/execution", EmptyDict, req,
                                       command_endpoints, env)]
    /\ UNCHANGED <<registered_commands, command_endpoints, commands_dir, phase, discovery, api_dir, url_map,
                   executorVars>>

\* POST /api/command
CommandRequest ==
    /\ phase = "serving"
    /\ \E req \in Requests, env \in {"ok", "GetJsonNone"} :
        last' = [op |-> "request", route |-> "api/command",
                 req |-> req, env |-> env,
                 out |-> error_handler("api/command", EmptyDict, req,
                                       command_endpoints, env)]
    /\ UNCHANGED <<registered_commands, command_endpoints, commands_dir, phase, discovery, api_dir, url_map,
                   executorVars>>

\* GET api/commands/list
ListRequest ==
    /\ phase = "serving"
    /\ \E req \in Requests :
        last' = [op |-> "request", route |-> "api/commands/list",
                 req |-> req, env |-> "ok",
                 out |-> error_handler("api/commands/list", EmptyDict, req,
                                       command_endpoints, "ok")]
    /\ UNCHANGED <<registered_commands, command_endpoints, commands_dir, phase, discovery, api_dir, url_map,
                   executorVars>>

\* POST api/show_message_window
ShowMessageWindowRequest ==
    /\ phase = "serving"
    /\ \E req \in Requests, env \in {"ok", "GetJsonNone", "TclError"} :
        last' = [op |-> "request", route |-> "api/show_message_window",
                 req |-> req, env |-> env,
                 out |-> error_handler("api/show_message_window", EmptyDict, req,
                                       command_endpoints, env)]
    /\ UNCHANGED <<registered_commands, command_endpoints, commands_dir, phase, discovery, api_dir, url_map,
                   executorVars>>

\* commands_loader[name]
LoaderGetItem ==
    /\ phase = "serving"
    /\ \E name \in LookupNames :
        last' = [op |-> "__getitem__", arg |-> name,
                 ret |-> CommandsLoaderGetItem(command_endpoints, name)]
    /\ UNCHANGED <<registered_commands, command_endpoints, commands_dir, phase, discovery, api_dir, url_map,
                   executorVars>>

\* CommandsLoader.__init__: no endpoints yet
InitDispatch ==
    /\ registered_commands = EmptyDict
    /\ command_endpoints = EmptyDict
    /\ commands_dir \in CommandsDirs
    /\ phase = "startup"
    /\ discovery = NoPass
    /\ last = [op |-> "init"]
    /\ InitNoApi
    /\ InitNoExecutor

NextDispatch ==
    \/ DiscoverCommands
    \/ ExecutionRequest
    \/ CommandRequest
    \/ ListRequest
    \/ ShowMessageWindowRequest
    \/ LoaderGetItem

SpecDispatch == InitDispatch /\ [][NextDispatch]_vars

----------------------------------------------------------------------------
(* Every place that builds a response envelope *)

\* the state of config/programs.json read by sync_programs and get_programs
ConfigStates == {"missing", "invalid_json", "ok"}

\* RemoteClient.sync_programs: the programs read are wrapped in an
\* ErrorResponse and sent with 200
sync_programs(config) ==
    IF config = "missing"
    THEN Wire(to_dict(ErrorResponseDefault(<<"Configuration file not found">>)),
              500)
    ELSE IF config = "invalid_json"
    THEN Wire(to_dict(ErrorResponseDefault(<<"Invalid JSON format">>)), 500)
    ELSE Wire(to_dict(ErrorResponseDefault(<<"programs">>)), 200)

\* RemoteClient.health_check_endpoint
health_check_endpoint ==
    Wire(to_dict(SystemInfoResponse("system_data", <<"Health check successful">>)),
         200)

\* RemoteClient.kill_process: no process_id, no such process, another
\* exception, terminated
kill_process(case) ==
    IF case = "missing_id"
    THEN Wire(to_dict(ErrorResponseDefault(<<"Missing process_id">>)), 400)
    ELSE IF case = "no_such_process"
    THEN Wire(to_dict(ErrorResponseDefault(<<"Process not found">>)), 404)
    ELSE IF case = "exception"
    THEN Wire(to_dict(ErrorResponseDefault(<<"error">>)), 500)
    ELSE Wire(to_dict(SuccessResponse(<<"Process {process_id} terminated">>,
                                      "None")), 200)

KillCases == {"missing_id", "no_such_process", "exception", "terminated"}

\* the messages and payloads handed to the response classes
Messages == {<<"m">>, <<"failed: ", "x">>}

Payloads == {"None", "payload"}

\* an instance of each response class, rendered with to_response
ClassInstances ==
    {to_response(SuccessResponse(m, d)) : m \in Messages, d \in Payloads}
    \cup {to_response(ProcessResponse(d, m)) : m \in Messages, d \in Payloads}
    \cup {to_response(ProgramResponse(d)) : d \in Payloads}
    \cup {to_response(SystemInfoResponse(d, m)) : m \in Messages, d \in Payloads}
    \cup {to_response(LogResponse(d)) : d \in Payloads}
    \cup {to_response(ErrorResponseDefault(m)) : m \in Messages}
    \cup {to_response(NotFoundResponse(m[1])) : m \in Messages}
    \cup {to_response(ValidationErrorResponse(m[1])) : m \in Messages}
    \cup {to_response(InternalErrorResponse(m)) : m \in Messages}
    \cup {to_response(BadRequestResponse(m)) : m \in Messages}
    \cup {to_response(UnauthorizedResponse(m)) : m \in Messages}
    \cup {to_response(ForbiddenErrorResponse(m, d)) : m \in Messages, d \in Payloads}
    \cup {to_response(BadMethodErrorResponse(m[1], "GET")) : m \in Messages}

\* a response class is instantiated and rendered
BuildResponse ==
    /\ \E w \in ClassInstances :
        last' = [op |-> "response", site |-> "class", resp |-> w]
    /\ UNCHANGED <<registered_commands, command_endpoints, commands_dir, phase, discovery, api_dir, url_map,
                   executorVars>>

\* a command's wrapper applied to what its business logic returns
WrapLogicResult ==
    /\ \E unit \in CommandNames, kwargs \in Dicts({"message"}), env \in HelperEnvs :
        LET h == IF unit = "shutdown" THEN shutdown_helper_function(kwargs, env)
                 ELSE IF unit = "get_specs"
                 THEN get_specs_helper_function(kwargs, env)
                 ELSE show_popup_helper_function(kwargs, env)
        IN  /\ ~h.raised
            /\ last' = [op |-> "response", site |-> unit,
                        resp |-> IF unit = "show_popup"
                                 THEN show_popup_wrap(unit, h)
                                 ELSE template_wrap(unit, h)]
    /\ UNCHANGED <<registered_commands, command_endpoints, commands_dir, phase, discovery, api_dir, url_map,
                   executorVars>>

SyncPrograms ==
    /\ \E config \in ConfigStates :
        last' = [op |-> "response", site |-> "sync_programs",
                 resp |-> sync_programs(config)]
    /\ UNCHANGED <<registered_commands, command_endpoints, commands_dir, phase, discovery, api_dir, url_map,
                   executorVars>>

HealthCheck ==
    /\ last' = [op |-> "response", site |-> "health_check_endpoint",
                resp |-> health_check_endpoint]
    /\ UNCHANGED <<registered_commands, command_endpoints, commands_dir, phase, discovery, api_dir, url_map,
                   executorVars>>

KillProcess ==
    /\ \E case \in KillCases :
        last' = [op |-> "response", site |-> "kill_process",
                 resp |-> kill_process(case)]
    /\ UNCHANGED <<registered_commands, command_endpoints, commands_dir, phase, discovery, api_dir, url_map,
                   executorVars>>

NextEnvelope ==
    \/ NextDispatch
    \/ BuildResponse
    \/ WrapLogicResult
    \/ SyncPrograms
    \/ HealthCheck
    \/ KillProcess

\* the dispatch system together with every other place that builds a response
SpecEnvelope == InitDispatch /\ [][NextEnvelope]_vars

----------------------------------------------------------------------------
(* Discovery over any set of sibling units: utils/commands_utils.py,       *)
(* RemoteClient._load_all_commands, utils/endpoints_loader.py              *)

\* the longest directory listing considered
MaxUnits == 2

\* children of a discovery root: a directory holding an entry file, or a
\* Python file; "disabled" and "Command" are names the walkers exclude
Entries ==
    {[name |-> "shutdown", kind |-> "dir"], [name |-> "shutdown", kind |-> "py"],
     [name |-> "get_specs", kind |-> "dir"], [name |-> "get_specs", kind |-> "py"],
     [name |-> "disabled", kind |-> "dir"], [name |-> "Command", kind |-> "py"]}

\* what importing a unit's module and calling its register() does; a
\* directory can also be without its entry file
Behaviours ==
    {"registers", "declines", "import_error", "import_raises",
     "register_raises", "no_register", "no_entry_file"}

\* os.path.isfile of the entry file of a directory (command.py, endpoint.py)
HasEntryFile(unit) == unit.does # "no_entry_file"

\* importlib.import_module(module_path): the exception raised, if any
ImportModule(unit) ==
    IF unit.does \in {"import_error", "no_entry_file"}
    THEN Exc("ImportError", <<"No module named '", unit.name, "'">>)
    ELSE IF unit.does = "import_raises"
    THEN Exc("SyntaxError", <<"invalid syntax">>)
    ELSE NoExc

\* hasattr(module, 'register')
HasRegister(unit) == unit.does # "no_register"

\* module.register() of a command unit: raises, or returns (endpoint, 200),
\* or returns (message, code) with another code
UnitRegister(unit) ==
    IF unit.does = "register_raises"
    THEN [exc |-> Exc("RuntimeError", <<"register failed">>), code |-> 0,
          endpoint |-> [unit |-> "", origin |-> ""]]
    ELSE IF unit.does = "declines"
    THEN [exc |-> NoExc, code |-> 500, endpoint |-> [unit |-> "", origin |-> ""]]
    ELSE [exc |-> NoExc, code |-> 200,
          endpoint |-> [unit |-> unit.name, origin |-> unit.kind]]

\* one logger call: its level, what it reports, and the unit it is about
Log(level, event, name) == [level |-> level, event |-> event, unit |-> name]

\* the state of a walk: the dict being filled, the log, and the exception
\* that left the loop (NoExc while the loop is running)
Walk(reg, log, exc) == [reg |-> reg, log |-> log, exc |-> exc]

\* the bug a walker that does not look at register()'s code would have
discover_commands_item_any_code(acc, unit) ==
    IF ~(unit.kind = "dir" /\ HasEntryFile(unit)
         /\ unit.name \notin excluded_dirs) THEN acc
    ELSE IF ImportModule(unit) # NoExc \/ ~HasRegister(unit)
            \/ UnitRegister(unit).exc # NoExc
    THEN Walk(acc.reg,
              Append(acc.log, Log("error", "unexpected_error", unit.name)), NoExc)
    ELSE Walk(DictSet(acc.reg, unit.name, UnitRegister(unit).endpoint),
              Append(acc.log, Log("info", "registered", unit.name)), NoExc)

\* discover_commands, one iteration of the loop over os.listdir
discover_commands_item(acc, unit) ==
    IF ~(unit.kind = "dir" /\ HasEntryFile(unit)
         /\ unit.name \notin excluded_dirs) THEN acc
    ELSE IF ImportModule(unit).type = "ImportError"
    THEN Walk(acc.reg, Append(acc.log, Log("error", "import_error", unit.name)),
              NoExc)
    ELSE IF ImportModule(unit) # NoExc
    THEN Walk(acc.reg,
              Append(acc.log, Log("error", "unexpected_error", unit.name)), NoExc)
    ELSE IF ~HasRegister(unit)
    THEN Walk(acc.reg,
              Append(acc.log, Log("warning", "no_register", unit.name)), NoExc)
    ELSE IF UnitRegister(unit).exc # NoExc
    THEN Walk(acc.reg,
              Append(acc.log, Log("error", "unexpected_error", unit.name)), NoExc)
    ELSE IF UnitRegister(unit).code = 200
    THEN Walk(DictSet(acc.reg, unit.name, UnitRegister(unit).endpoint),
              Append(acc.log, Log("info", "registered", unit.name)), NoExc)
    ELSE Walk(acc.reg,
              Append(acc.log, Log("error", "register_failed", unit.name)), NoExc)

\* discover_commands_files, one iteration: only ImportError is caught, and a
\* module without register() is passed over without a word
discover_commands_files_item(acc, unit) ==
    IF ~(unit.kind = "py"
         /\ unit.name \notin {"__init__", "blueprint_command", "Command",
                              "legacy_to_command"}) THEN acc
    ELSE IF ImportModule(unit).type = "ImportError"
    THEN Walk(acc.reg, Append(acc.log, Log("error", "import_error", unit.name)),
              NoExc)
    ELSE IF ImportModule(unit) # NoExc
    THEN Walk(acc.reg, acc.log, ImportModule(unit))
    ELSE IF ~HasRegister(unit) THEN acc
    ELSE IF UnitRegister(unit).exc # NoExc
    THEN Walk(acc.reg, acc.log, UnitRegister(unit).exc)
    ELSE IF UnitRegister(unit).code = 200
    THEN Walk(DictSet(acc.reg, unit.name, UnitRegister(unit).endpoint),
              Append(acc.log, Log("info", "registered", unit.name)), NoExc)
    ELSE Walk(acc.reg,
              Append(acc.log, Log("error", "register_failed", unit.name)), NoExc)

\* module.register() of a command module loaded by _load_all_commands:
\* (Command_obj, 200) or (error_message, error_code)
UnitRegisterCommand(unit) ==
    IF unit.does = "registers" THEN CommandInit(unit.name, 1, FALSE)
    ELSE NotACommand

\* _load_all_commands, one iteration: the Command goes through add_command,
\* and the success line is logged whatever add_command answered
load_all_commands_item(acc, unit) ==
    IF ~(unit.kind = "py" /\ unit.name \notin {"__init__", "Command"}) THEN acc
    ELSE IF ImportModule(unit).type = "ImportError"
    THEN Walk(acc.reg, Append(acc.log, Log("error", "import_error", unit.name)),
              NoExc)
    ELSE IF ImportModule(unit) # NoExc
    THEN Walk(acc.reg,
              Append(acc.log, Log("error", "unexpected_error", unit.name)), NoExc)
    ELSE IF ~HasRegister(unit)
    THEN Walk(acc.reg,
              Append(acc.log, Log("warning", "no_register", unit.name)), NoExc)
    ELSE IF UnitRegister(unit).exc # NoExc
    THEN Walk(acc.reg,
              Append(acc.log, Log("error", "unexpected_error", unit.name)), NoExc)
    ELSE IF UnitRegister(unit).code = 200
            /\ UnitRegisterCommand(unit).cls = "Command"
    THEN LET added == add_command(acc.reg, UnitRegisterCommand(unit)) IN
         Walk(added.reg,
              (IF added.ret.code # 200
               THEN Append(acc.log, Log("error", "add_failed", unit.name))
               ELSE acc.log) \o << Log("info", "registered", unit.name) >>,
              NoExc)
    ELSE Walk(acc.reg,
              Append(acc.log, Log("warning", "register_failed", unit.name)), NoExc)

\* the three walkers over the commands directory
CommandPasses ==
    {"discover_commands", "discover_commands_files", "_load_all_commands"}

\* the body of the walker's for loop
WalkItem(pass, acc, unit) ==
    IF pass = "discover_commands" THEN discover_commands_item(acc, unit)
    ELSE IF pass = "discover_commands_files"
    THEN discover_commands_files_item(acc, unit)
    ELSE load_all_commands_item(acc, unit)

\* the for loop over os.listdir, from item i on: an exception that is not
\* caught inside the loop ends it
RECURSIVE WalkListing(_, _, _, _)
WalkListing(pass, listing, i, acc) ==
    IF i > Len(listing) \/ acc.exc # NoExc THEN acc
    ELSE WalkListing(pass, listing, i + 1, WalkItem(pass, acc, listing[i]))

\* what a walker leaves behind: the registry it writes, what it returns
\* (code 0 when it returns no code), the exception it lets out, and its log
Walked(reg, code, exc, log) ==
    [reg |-> reg, code |-> code, exc |-> exc, log |-> log]

\* discover_commands as a whole, for any listing: a fresh dict is filled and
\* replaces command_endpoints
discover_commands_walk(dir, endpoints) ==
    IF ~dir.exists
    THEN Walked(EmptyDict, 404, NoExc, << Log("error", "not_found", "") >>)
    ELSE LET w == WalkListing("discover_commands", dir.listing, 1,
                              Walk(EmptyDict, <<>>, NoExc))
         IN Walked(w.reg, 200, NoExc, w.log)

\* discover_commands_files as a whole: a missing directory returns {} and
\* leaves command_endpoints alone; so does an exception that leaves the loop
discover_commands_files(dir, endpoints) ==
    IF ~dir.exists
    THEN Walked(endpoints, 0, NoExc, << Log("error", "not_found", "") >>)
    ELSE LET w == WalkListing("discover_commands_files", dir.listing, 1,
                              Walk(EmptyDict, <<>>, NoExc))
         IN IF w.exc # NoExc THEN Walked(endpoints, 0, w.exc, w.log)
            ELSE Walked(w.reg, 200, NoExc, w.log)

\* _load_all_commands as a whole: it returns None, and adds to the registry
\* of commands/Command.py
load_all_commands(dir, registry) ==
    IF ~dir.exists
    THEN Walked(registry, 0, NoExc, << Log("error", "not_found", "") >>)
    ELSE LET w == WalkListing("_load_all_commands", dir.listing, 1,
                              Walk(registry, <<>>, NoExc))
         IN Walked(w.reg, 0, NoExc, w.log)

----------------------------------------------------------------------------
(* utils/endpoints_loader.py: the walk over the 'api' directory *)

\* children of the api root: single-file endpoints and sub-level directories
ApiEntries ==
    {[name |-> "tree", kind |-> "py"],
     [name |-> "show_message_window", kind |-> "py"],
     [name |-> "commands", kind |-> "dir"], [name |-> "auth", kind |-> "dir"],
     [name |-> "disabled", kind |-> "dir"],
     [name |-> "blueprint_endpoint", kind |-> "py"],
     [name |-> "my_endpoint", kind |-> "py"]}

\* item.endswith('endpoint.py'), for the file names of the model
endswith_endpoint_py(name) ==
    name \in {"endpoint", "blueprint_endpoint", "my_endpoint"}

\* an endpoint unit never answers register() with another code than 200:
\* it adds its rule and returns 200, or it fails before it adds anything
EndpointBehaviours == Behaviours \ {"declines"}

\* excluded of load_endpoints; a file is named here without its '.py'
excluded == {"__init__", "blueprint_endpoint", "__pycache__", "disabled"}

\* the files below a sub-level directory, as the repository has them:
\* execute.py imports a name utils.endpoints_loader does not define, and the
\* register() of login.py and logout.py takes two arguments, not three
Children(name) ==
    IF name = "commands"
    THEN << [name |-> "execution", kind |-> "py", does |-> "registers"],
            [name |-> "list", kind |-> "py", does |-> "registers"],
            [name |-> "execute", kind |-> "py", does |-> "import_error"],
            [name |-> "endpoint", kind |-> "py", does |-> "import_error"] >>
    ELSE IF name = "auth"
    THEN << [name |-> "login", kind |-> "py", does |-> "register_raises"],
            [name |-> "logout", kind |-> "py", does |-> "register_raises"],
            [name |-> "endpoint", kind |-> "py", does |-> "register_raises"] >>
    ELSE << >>

\* methods of the rule a unit's register() adds
EndpointMethods(name) ==
    IF name \in {"execution", "execute", "show_message_window"} THEN {"POST"}
    ELSE {"GET"}

\* the bug a register() that leaves out methods= for every method would have
Rule_any_method(path, methods) ==
    [rule |-> path, endpoint |-> path,
     methods |-> {"GET", "POST", "DELETE", "HEAD", "OPTIONS"}]

\* a rule of the url map: the URL path, the endpoint identifier, the methods
Rule(path, methods) == [rule |-> path, endpoint |-> path, methods |-> methods]

\* app.add_url_rule as the units call it: an endpoint identifier that is
\* already mapped to another view function is refused with AssertionError
add_url_rule(map, path, methods) ==
    IF \E r \in map : r.endpoint = path
    THEN [map |-> map,
          exc |-> Exc("AssertionError",
                      <<"View function mapping is overwriting an existing endpoint function">>)]
    ELSE [map |-> map \cup {Rule(path, methods)}, exc |-> NoExc]

\* what a walk over one directory leaves: the url map, the (message, code)
\* it returns, and the exception it lets out
Loaded(map, code, exc) == [map |-> map, code |-> code, exc |-> exc]

\* load_endpoints and register_endpoint call each other through the
\* register() of an endpoint.py
RECURSIVE load_endpoints_from(_, _, _, _)

\* module.register(self, self.app, api_path) of an endpoint unit: the rule is
\* added first; an endpoint.py then walks its own directory
EndpointRegister(map, api_path, unit) ==
    IF unit.does = "register_raises"
    THEN Loaded(map, 0, Exc("TypeError", <<"register() takes 2 positional arguments but 3 were given">>))
    ELSE LET added == add_url_rule(map, api_path, EndpointMethods(unit.name)) IN
         IF added.exc # NoExc THEN Loaded(added.map, 0, added.exc)
         ELSE IF unit.kind = "dir"
         THEN load_endpoints_from(added.map, api_path, Children(unit.name), 1)
         ELSE Loaded(added.map, 200, NoExc)

\* the bug a register_endpoint without its try/except would have
register_endpoint_no_except(map, api_path, unit) ==
    IF ImportModule(unit) # NoExc THEN Loaded(map, 0, ImportModule(unit))
    ELSE IF ~HasRegister(unit) THEN Loaded(map, 500, NoExc)
    ELSE EndpointRegister(map, api_path, unit)

\* register_endpoint: the module is imported and its register() called inside
\* one try/except Exception; the unit's code is handed back
register_endpoint(map, api_path, unit) ==
    IF ImportModule(unit) # NoExc THEN Loaded(map, 500, NoExc)
    ELSE IF ~HasRegister(unit) THEN Loaded(map, 500, NoExc)
    ELSE LET r == EndpointRegister(map, api_path, unit) IN
         IF r.exc # NoExc THEN Loaded(r.map, 500, NoExc)
         ELSE Loaded(r.map, r.code, NoExc)

\* the loop of load_endpoints from item i on: excluded names and files whose
\* name ends in 'endpoint.py' are skipped, everything else is registered and
\* the answer of register_endpoint is dropped; an exception it would raise
\* ends the loop
load_endpoints_from(map, relative_path, listing, i) ==
    IF i > Len(listing) THEN Loaded(map, 200, NoExc)
    ELSE LET unit == listing[i]
             registered == register_endpoint(
                              map, Append(relative_path, unit.name), unit) IN
         IF unit.name \in excluded
            \/ (unit.kind = "py" /\ endswith_endpoint_py(unit.name))
         THEN load_endpoints_from(map, relative_path, listing, i + 1)
         ELSE IF registered.exc # NoExc
         THEN Loaded(registered.map, 0, registered.exc)
         ELSE load_endpoints_from(registered.map, relative_path, listing,
                                  i + 1)

\* load_endpoints(relative_path): os.listdir raises when the directory is
\* missing; there is no test for it
load_endpoints(map, relative_path, dir) ==
    IF ~dir.exists
    THEN Loaded(map, 0, Exc("FileNotFoundError", <<"No such file or directory">>))
    ELSE load_endpoints_from(map, relative_path, dir.listing, 1)

----------------------------------------------------------------------------
(* remote_client.py: RemoteClient.__init__ *)

\* the two routes _register_routes adds itself
StaticRoutes ==
    {Rule(<<"api", "command">>, {"POST"}), Rule(<<"api", "health">>, {"GET"})}

\* _register_routes: the static routes are added to the new app, then
\* load_endpoints is called with the loader as an extra positional argument
register_routes(dir) ==
    Loaded(StaticRoutes, 0,
           Exc("TypeError",
               <<"load_endpoints() takes 2 positional arguments but 3 were given">>))

\* _register_commands: a new CommandsLoader discovers; code and message are
\* handed back
register_commands(dir) == discover_commands_walk(dir, EmptyDict)

\* RemoteClient.__init__: a new Flask app, the routes, then the commands;
\* the answer of _register_commands is not looked at
RemoteClientInit(api, cmds) ==
    LET routes == register_routes(api) IN
    IF routes.exc # NoExc
    THEN [map |-> routes.map, endpoints |-> EmptyDict, exc |-> routes.exc]
    ELSE IF routes.code # 200
    THEN [map |-> routes.map, endpoints |-> EmptyDict,
          exc |-> Exc("Exception", <<"Failed to register routes: ">>)]
    ELSE [map |-> routes.map, endpoints |-> register_commands(cmds).reg,
          exc |-> NoExc]

----------------------------------------------------------------------------
(* The discovery system: directories with any siblings, walked any number  *)
(* of times by any of the walkers                                          *)

\* the units a listing can hold: each entry with each behaviour
UnitsOf(entries, behaviours) ==
    {u \in {[name |-> e.name, kind |-> e.kind, does |-> b] :
                e \in entries, b \in behaviours} :
        u.does = "no_entry_file" => u.kind = "dir"}

\* os.listdir: up to n different entries in any order
Listings(entries, behaviours, n) ==
    UNION {{s \in [1..k -> UnitsOf(entries, behaviours)] :
                \A i, j \in 1..k :
                    i # j => <<s[i].name, s[i].kind>> # <<s[j].name, s[j].kind>>} :
           k \in 0..n}

MissingDir == [exists |-> FALSE, listing |-> <<>>]

Directory(listing) == [exists |-> TRUE, listing |-> listing]

\* the record of a walk: which walker, the registry it found, what it
\* returned, the exception it let out, and what it logged
WalkRecord(pass, before, code, exc, log) ==
    [op |-> "walk", pass |-> pass, before |-> before, code |-> code,
     exc |-> exc, log |-> log]

DiscoverCommandsWalk ==
    /\ LET w == discover_commands_walk(commands_dir, command_endpoints) IN
        /\ command_endpoints' = w.reg
        /\ last' = WalkRecord("discover_commands", command_endpoints, w.code,
                              w.exc, w.log)
    /\ UNCHANGED <<registered_commands, commands_dir, phase, discovery, api_dir, url_map,
                   executorVars>>

DiscoverCommandsFiles ==
    /\ LET w == discover_commands_files(commands_dir, command_endpoints) IN
        /\ command_endpoints' = w.reg
        /\ last' = WalkRecord("discover_commands_files", command_endpoints,
                              w.code, w.exc, w.log)
    /\ UNCHANGED <<registered_commands, commands_dir, phase, discovery, api_dir, url_map,
                   executorVars>>

LoadAllCommands ==
    /\ LET w == load_all_commands(commands_dir, registered_commands) IN
        /\ registered_commands' = w.reg
        /\ last' = WalkRecord("_load_all_commands", registered_commands, w.code,
                              w.exc, w.log)
    /\ UNCHANGED <<command_endpoints, commands_dir, phase, discovery, api_dir, url_map,
                   executorVars>>

\* endpoints_loader.load_endpoints('api')
LoadEndpoints ==
    /\ LET w == load_endpoints(url_map, <<"api">>, api_dir) IN
        /\ url_map' = w.map
        /\ last' = WalkRecord("load_endpoints", url_map, w.code, w.exc, <<>>)
    /\ UNCHANGED <<registered_commands, command_endpoints, commands_dir, phase, discovery,
                   api_dir, executorVars>>

\* RemoteClient(name, port, target_url)
NewRemoteClient ==
    /\ LET c == RemoteClientInit(api_dir, commands_dir) IN
        /\ url_map' = c.map
        /\ command_endpoints' = c.endpoints
        /\ last' = [op |-> "RemoteClient", exc |-> c.exc,
                    before |-> command_endpoints]
    /\ UNCHANGED <<registered_commands, commands_dir, phase, discovery, api_dir,
                   executorVars>>

\* either the commands directory or the api directory holds the siblings
InitDiscovery ==
    /\ registered_commands = EmptyDict
    /\ command_endpoints = EmptyDict
    /\ url_map = {}
    /\ \/ /\ commands_dir \in
                {MissingDir} \cup
                {Directory(l) : l \in Listings(Entries, Behaviours, MaxUnits)}
          /\ api_dir = MissingDir
       \/ /\ commands_dir = MissingDir
          /\ api_dir \in
                {Directory(l) :
                    l \in Listings(ApiEntries, EndpointBehaviours, MaxUnits)}
    /\ phase = "startup"
    /\ discovery = NoPass
    /\ last = [op |-> "init"]
    /\ InitNoExecutor

NextDiscovery ==
    \/ DiscoverCommandsWalk
    \/ DiscoverCommandsFiles
    \/ LoadAllCommands
    \/ LoadEndpoints
    \/ NewRemoteClient

SpecDiscovery == InitDiscovery /\ [][NextDiscovery]_vars

----------------------------------------------------------------------------
(* discover_commands statement by statement, next to threads that read the *)
(* registry                                                                *)

\* calls of discover_commands in one run
MaxPasses == 2

\* the command directories a call scans
PublishEntries == {e \in Entries : e.kind = "dir"}

\* what their modules do
PublishBehaviours == {"registers", "declines", "import_error"}

\* the bug a discover_commands that fills self.command_endpoints inside its
\* loop would have
self_command_endpoints_in_loop(endpoints, registered, returning) ==
    registered

\* self.command_endpoints after a statement of discover_commands: the loop
\* fills the local registered_commands, and the one assignment before the
\* return stores it
self_command_endpoints(endpoints, registered, returning) ==
    IF returning THEN registered ELSE endpoints

\* discover_commands is entered: a missing directory stores {} and returns
\* 404, otherwise registered_commands = {} and os.listdir is taken
DiscoverEnter ==
    /\ discovery.pc = "idle"
    /\ discovery.passes < MaxPasses
    /\ IF ~commands_dir.exists
       THEN /\ command_endpoints' = EmptyDict
            /\ discovery' = [discovery EXCEPT !.passes = @ + 1]
            /\ last' = [op |-> "discover_commands", code |-> 404]
       ELSE /\ discovery' = [discovery EXCEPT !.pc = "for", !.i = 1,
                                              !.listing = commands_dir.listing,
                                              !.registered_commands = EmptyDict]
            /\ UNCHANGED <<command_endpoints, last>>
    /\ UNCHANGED <<registered_commands, commands_dir, phase, api_dir, url_map,
                   executorVars>>

\* one iteration of the loop
DiscoverItem ==
    /\ discovery.pc = "for"
    /\ discovery.i <= Len(discovery.listing)
    /\ LET acc == discover_commands_item(
                      Walk(discovery.registered_commands, <<>>, NoExc),
                      discovery.listing[discovery.i])
       IN /\ discovery' = [discovery EXCEPT !.i = @ + 1,
                                            !.registered_commands = acc.reg]
          /\ command_endpoints' =
                self_command_endpoints(command_endpoints, acc.reg, FALSE)
    /\ UNCHANGED <<registered_commands, commands_dir, phase, api_dir, url_map,
                   last, executorVars>>

\* the loop is over: self.command_endpoints = registered_commands, return 200
DiscoverReturn ==
    /\ discovery.pc = "for"
    /\ discovery.i > Len(discovery.listing)
    /\ command_endpoints' =
          self_command_endpoints(command_endpoints,
                                 discovery.registered_commands, TRUE)
    /\ discovery' = [discovery EXCEPT !.pc = "idle", !.i = 0, !.listing = <<>>,
                                      !.registered_commands = EmptyDict,
                                      !.passes = @ + 1]
    /\ last' = [op |-> "discover_commands", code |-> 200]
    /\ UNCHANGED <<registered_commands, commands_dir, phase, api_dir, url_map,
                   executorVars>>

\* another thread calls get_command_list(); the record keeps where the call
\* of discover_commands stood
ReadCommandList ==
    /\ last' = [op |-> "get_command_list", out |-> command_endpoints,
                pc |-> discovery.pc, i |-> discovery.i,
                passes |-> discovery.passes]
    /\ UNCHANGED <<loaderVars, executorVars>>

\* another thread asks: name in commands_loader
ReadContains ==
    /\ \E item \in CommandNames \cup {"nope"} :
        last' = [op |-> "__contains__", arg |-> item,
                 out |-> item \in DOMAIN command_endpoints,
                 pc |-> discovery.pc, i |-> discovery.i,
                 passes |-> discovery.passes]
    /\ UNCHANGED <<loaderVars, executorVars>>

\* a new CommandsLoader over a commands directory that stays as it is
InitPublish ==
    /\ registered_commands = EmptyDict
    /\ command_endpoints = EmptyDict
    /\ commands_dir \in
          {MissingDir} \cup
          {Directory(l) : l \in Listings(PublishEntries, PublishBehaviours, MaxUnits)}
    /\ api_dir = MissingDir
    /\ url_map = {}
    /\ phase = "startup"
    /\ discovery = NoPass
    /\ last = [op |-> "init"]
    /\ InitNoExecutor

NextPublish ==
    \/ DiscoverEnter
    \/ DiscoverItem
    \/ DiscoverReturn
    \/ ReadCommandList
    \/ ReadContains

SpecPublish == InitPublish /\ [][NextPublish]_vars

----------------------------------------------------------------------------
(* Requests against the url map: the rules the units add, matched by Flask *)

\* the HTTP methods a client sends
HttpMethods == {"GET", "POST", "DELETE", "HEAD", "OPTIONS"}

\* the methods a rule lets through: those given to add_url_rule, HEAD with
\* GET, and OPTIONS, which Flask answers itself
RuleAllows(r) ==
    r.methods \cup (IF "GET" \in r.methods THEN {"HEAD"} ELSE {}) \cup {"OPTIONS"}

\* what the app does with a request: no rule for the path, 404; rules for
\* the path but none for the method, 405; OPTIONS not given to add_url_rule,
\* answered by Flask; otherwise the rule's view function is called
Dispatched(http, invoked) == [http |-> http, invoked |-> invoked]

full_dispatch_request(map, path, method) ==
    LET matching == {r \in map : r.rule = path} IN
    IF matching = {} THEN Dispatched(404, FALSE)
    ELSE IF \A r \in matching : method \notin RuleAllows(r)
    THEN Dispatched(405, FALSE)
    ELSE IF \A r \in matching : method \notin r.methods /\ method = "OPTIONS"
    THEN Dispatched(200, FALSE)
    ELSE Dispatched(0, TRUE)

\* the paths clients ask for: below the api root, registered or not
RequestPaths ==
    {<<"api", e.name>> : e \in ApiEntries}
    \cup {<<"api", "commands", "execution">>, <<"api", "commands", "list">>,
          <<"api", "command">>, <<"api", "health">>, <<"api", "nonexistent">>,
          <<"api", "test">>}

\* a request arrives
HttpRequest ==
    /\ \E path \in RequestPaths, method \in HttpMethods :
        last' = [op |-> "http", path |-> path, method |-> method,
                 out |-> full_dispatch_request(url_map, path, method)]
    /\ UNCHANGED <<loaderVars, executorVars>>

\* the same keys arriving from the URL, the query string and the body,
\* each source with values of its own
SourceDicts(command, message) ==
    {[k \in D |-> IF k = "command" THEN command ELSE message] :
        D \in SUBSET {"command", "message"}}

\* a request on a rule with URL parameters, through the wrapper
MergeRequest ==
    /\ \E kwargs \in SourceDicts("shutdown", "from the path"),
          query \in SourceDicts("get_specs", "from the query"),
          body \in {Request(EmptyDict, "dict", b) :
                        b \in SourceDicts("nope", "from the body")}
                   \cup {Request(EmptyDict, k, EmptyDict) :
                            k \in {"none", "list", "malformed"}} :
        LET req == Request(query, body.body_kind, body.body) IN
        last' = [op |-> "merge", view_args |-> kwargs, req |-> req,
                 out |-> error_handler("api/commands/execution", kwargs, req,
                                       command_endpoints, "ok")]
    /\ UNCHANGED <<loaderVars, executorVars>>

\* the rule Flask(__name__) adds itself for the static folder of the app
FlaskStaticRule == Rule(<<"static", "<path:filename>">>, {"GET"})

\* current_app.url_map.iter_rules(): the rules the program added and the
\* rule of the static folder
iter_rules(map) == map \cup {FlaskStaticRule}

\* "<" in rule.rule, for the segments of the model
is_dynamic(rule) ==
    \E i \in 1..Len(rule.rule) : rule.rule[i] = "<path:filename>"

\* sorted() over method names
sorted(methods) ==
    SelectSeq(<<"DELETE", "GET", "HEAD", "OPTIONS", "POST">>,
              LAMBDA m : m \in methods)

\* the bug a '_methods' list that keeps every method of the rule would have
node_methods_all(rule) == sorted(RuleAllows(rule))

\* the '_methods' list of a rule: its methods without OPTIONS and HEAD, sorted
node_methods(rule) == sorted(RuleAllows(rule) \ {"OPTIONS", "HEAD"})

\* the inner loop of build_api_tree: one level down per segment, a missing
\* level is created empty, and '_methods' is set on the level reached
RECURSIVE tree_insert(_, _, _)
tree_insert(node, parts, methods) ==
    IF parts = <<>> THEN DictSet(node, "_methods", methods)
    ELSE LET part == Head(parts)
             child == IF part \in DOMAIN node THEN node[part] ELSE EmptyDict
         IN DictSet(node, part, tree_insert(child, Tail(parts), methods))

\* the outer loop of build_api_tree over the rules still to visit: a dynamic
\* rule is passed over
RECURSIVE build_api_tree_from(_, _)
build_api_tree_from(tree, rules) ==
    IF rules = {} THEN tree
    ELSE LET rule == CHOOSE r \in rules : TRUE IN
         IF is_dynamic(rule) THEN build_api_tree_from(tree, rules \ {rule})
         ELSE build_api_tree_from(
                  tree_insert(tree, rule.rule, node_methods(rule)),
                  rules \ {rule})

\* build_api_tree(): from an empty tree over every rule of the app
build_api_tree(map) == build_api_tree_from(EmptyDict, iter_rules(map))

\* GET /api/tree with a depth, once the unit api/tree.py has registered its
\* rule: handler builds the tree
TreeRequest ==
    /\ \E r \in url_map : r.rule = <<"api", "tree">>
    /\ last' = [op |-> "tree", out |-> build_api_tree(url_map)]
    /\ UNCHANGED <<loaderVars, executorVars>>

\* the units of the api root that the loader can register as they are
RoutedEntries ==
    {[name |-> "tree", kind |-> "py"], [name |-> "commands", kind |-> "dir"]}

\* an api directory whose units all register
InitRouting ==
    /\ registered_commands = EmptyDict
    /\ command_endpoints = EmptyDict
    /\ commands_dir = MissingDir
    /\ api_dir \in {Directory(l) : l \in Listings(RoutedEntries, {"registers"}, MaxUnits)}
    /\ url_map = {}
    /\ phase = "startup"
    /\ discovery = NoPass
    /\ last = [op |-> "init"]
    /\ InitNoExecutor

NextRouting ==
    \/ LoadEndpoints
    \/ NewRemoteClient
    \/ HttpRequest
    \/ MergeRequest
    \/ TreeRequest

SpecRouting == InitRouting /\ [][NextRouting]_vars

----------------------------------------------------------------------------
(* utils/programs.py and commands.py: ProgramExecutor                      *)
(*                                                                         *)
(* Every Python thread is a position in the code it runs: a caller inside  *)
(* execute_program or kill, a worker inside execution_thread.  One action  *)
(* is the stretch of code a thread runs between two points where another   *)
(* thread can see or change the status table or the external process.      *)

\* number of execute_program calls made on one executor
MaxCalls == 2

\* Python's None
None == <<>>

\* ProgramExecutor.__init__ of the two modules: the one of commands.py sets
\* self.logger, the one of utils/programs.py sets no logger attribute; both
\* create self._lock, which no thread holds (lock is the caller that holds
\* it, 0 for none)
Executors ==
    { [module |-> "utils.programs", has_logger |-> FALSE, lock |-> 0],
      [module |-> "commands", has_logger |-> TRUE, lock |-> 0] }

\* what execute_program is asked to run: the file, how the external
\* program behaves, whether a timeout is given, whether its output is
\* captured, and the on_complete callback: none, one that returns or one
\* that raises
Programs ==
    { [file |-> "missing", behaviour |-> "exits", code |-> 0,
       timeout |-> FALSE, capture_output |-> FALSE,
       on_complete |-> "returns"],
      [file |-> "valid", behaviour |-> "exits", code |-> 0,
       timeout |-> TRUE, capture_output |-> TRUE,
       on_complete |-> "raises"],
      [file |-> "valid", behaviour |-> "exits", code |-> 1,
       timeout |-> FALSE, capture_output |-> FALSE,
       on_complete |-> "None"],
      [file |-> "valid", behaviour |-> "hangs", code |-> 0,
       timeout |-> TRUE, capture_output |-> TRUE,
       on_complete |-> "returns"],
      [file |-> "valid", behaviour |-> "hangs", code |-> 0,
       timeout |-> FALSE, capture_output |-> FALSE,
       on_complete |-> "None"] }

\* the statuses after which the worker writes no more
TerminalStatuses == {"completed", "timeout", "error", "killed"}

\* the bug an allocation that does not store the incremented counter would
\* have
get_next_process_id_not_stored(counter) ==
    [counter |-> counter, process_id |-> counter + 1]

\* _get_next_process_id: under the lock, increment the counter and return it
get_next_process_id(counter) ==
    [counter |-> counter + 1, process_id |-> counter + 1]

\* the result dictionary execute_program starts a record with
Result(process_id) ==
    [process_id |-> process_id, status |-> "starting", returncode |-> None,
     stdout |-> None, stderr |-> None, error |-> None, process |-> None]

\* get_process_status: the record itself, or {'status': 'not_found'}
get_process_status(table, process_id) ==
    IF process_id \in DOMAIN table THEN table[process_id]
    ELSE [status |-> "not_found"]

\* a caller that is not inside execute_program
NotCalling == [pc |-> "idle", process_id |-> 0]

\* a caller that is not inside kill, and what its last call came to
NotKilling(ret) == [pc |-> "idle", ret |-> ret]

\* self.logger.<level>(...): an AttributeError where there is no logger
LoggerRaises == ~executor.has_logger

\* execute_program, up to the lock of _get_next_process_id: the caller
\* enters 'with self._lock' when no other thread holds the lock
ExecuteProgramEnter(k, program) ==
    /\ calls.execute[k].pc = "idle"
    /\ executor.lock = 0
    /\ executor' = [executor EXCEPT !.lock = k]
    /\ calls' = [calls EXCEPT !.execute[k] =
                    [pc |-> "with self._lock", process_id |-> 0,
                     program |-> program]]
    /\ UNCHANGED <<loaderVars, last, process_counter, running_processes,
                   threads, popen>>

\* _get_next_process_id, inside the lock: the counter is incremented and
\* returned, and the lock is released
ExecuteProgramNextId(k) ==
    /\ calls.execute[k].pc = "with self._lock"
    /\ LET next == get_next_process_id(process_counter) IN
        /\ process_counter' = next.counter
        /\ calls' = [calls EXCEPT !.execute[k].pc = "allocated",
                                  !.execute[k].process_id = next.process_id]
    /\ executor' = [executor EXCEPT !.lock = 0]
    /\ UNCHANGED <<loaderVars, last, running_processes, threads, popen>>

\* execute_program: self.running_processes[process_id] = result
ExecuteProgramStore(k) ==
    /\ calls.execute[k].pc = "allocated"
    /\ LET id == calls.execute[k].process_id IN
        running_processes' = DictSet(running_processes, id, Result(id))
    /\ calls' = [calls EXCEPT !.execute[k].pc = "stored"]
    /\ UNCHANGED <<loaderVars, last, executor, process_counter, threads, popen>>

\* execute_program: thread.start()
ExecuteProgramStartThread(k) ==
    /\ calls.execute[k].pc = "stored"
    /\ threads' = DictSet(threads, calls.execute[k].process_id,
                          [pc |-> "validate",
                           program |-> calls.execute[k].program,
                           exc |-> "", timed_out |-> FALSE,
                           raised |-> FALSE, callbacks |-> <<>>])
    /\ calls' = [calls EXCEPT !.execute[k].pc = "started"]
    /\ UNCHANGED <<loaderVars, last, executor, process_counter,
                   running_processes, popen>>

\* execute_program: return process_id
ExecuteProgramReturn(k) ==
    /\ calls.execute[k].pc = "started"
    /\ calls' = [calls EXCEPT !.execute[k].pc = "returned"]
    /\ UNCHANGED <<loaderVars, last, executor, process_counter,
                   running_processes, threads, popen>>

\* execution_thread: the file is validated; a file that passes makes the
\* record 'running', any other raises into the handlers
ThreadValidate(id) ==
    /\ id \in DOMAIN threads
    /\ threads[id].pc = "validate"
    /\ IF threads[id].program.file = "valid"
       THEN /\ running_processes' =
                    [running_processes EXCEPT ![id].status = "running"]
            /\ threads' = [threads EXCEPT ![id].pc = "Popen"]
       ELSE /\ threads' = [threads EXCEPT ![id].pc = "except Exception",
                                          ![id].exc = "FileNotFoundError"]
            /\ UNCHANGED running_processes
    /\ UNCHANGED <<loaderVars, last, executor, process_counter, calls, popen>>

\* execution_thread: the external program is started and its Popen object
\* is stored in the record
ThreadPopen(id) ==
    /\ id \in DOMAIN threads
    /\ threads[id].pc = "Popen"
    /\ popen' = DictSet(popen, id, [state |-> "running", returncode |-> None])
    /\ running_processes' = [running_processes EXCEPT ![id].process = <<id>>]
    /\ threads' = [threads EXCEPT ![id].pc = "communicate"]
    /\ UNCHANGED <<loaderVars, last, executor, process_counter, calls>>

\* the external program ends by itself with its exit code
ProgramExits(id) ==
    /\ id \in DOMAIN popen
    /\ popen[id].state = "running"
    /\ threads[id].program.behaviour = "exits"
    /\ popen' = [popen EXCEPT ![id] =
                    [state |-> "exited",
                     returncode |-> <<threads[id].program.code>>]]
    /\ UNCHANGED <<loaderVars, last, executor, process_counter,
                   running_processes, calls, threads>>

\* Popen.kill(): SIGKILL to a program that is still running, nothing to one
\* that has ended
process_kill(process) ==
    IF process.state = "running"
    THEN [state |-> "killed", returncode |-> <<-9>>]
    ELSE process

\* execution_thread: process.communicate(timeout=timeout) returns when the
\* program has ended, and raises TimeoutExpired when the timeout passes
\* while the program still runs
ThreadCommunicate(id) ==
    /\ id \in DOMAIN threads
    /\ threads[id].pc = "communicate"
    /\ \/ /\ popen[id].state # "running"
          /\ threads' = [threads EXCEPT ![id].pc = "completed"]
       \/ /\ popen[id].state = "running"
          /\ threads[id].program.timeout
          /\ threads' = [threads EXCEPT ![id].pc = "except TimeoutExpired",
                                        ![id].timed_out = TRUE]
    /\ UNCHANGED <<loaderVars, last, executor, process_counter,
                   running_processes, calls, popen>>

\* execution_thread: the record is updated after communicate returned, and
\* the completion is logged; the logger call raises into the handlers where
\* the executor has no logger
ThreadCompleted(id) ==
    /\ id \in DOMAIN threads
    /\ threads[id].pc = "completed"
    /\ running_processes' =
            [running_processes EXCEPT
                ![id].status = "completed",
                ![id].returncode = popen[id].returncode,
                ![id].stdout = IF threads[id].program.capture_output
                               THEN <<"stdout">> ELSE @,
                ![id].stderr = IF threads[id].program.capture_output
                               THEN <<"stderr">> ELSE @]
    /\ threads' = [threads EXCEPT ![id].pc = "logger.info"]
    /\ UNCHANGED <<loaderVars, last, executor, process_counter, calls, popen>>

\* execution_thread: self.logger.info(...) at the end of the try block
ThreadLogCompleted(id) ==
    /\ id \in DOMAIN threads
    /\ threads[id].pc = "logger.info"
    /\ threads' = IF LoggerRaises
                  THEN [threads EXCEPT ![id].pc = "except Exception",
                                       ![id].exc = "AttributeError"]
                  ELSE [threads EXCEPT ![id].pc = "finally"]
    /\ UNCHANGED <<loaderVars, last, executor, process_counter,
                   running_processes, calls, popen>>

\* execution_thread, except TimeoutExpired: the record becomes 'timeout'
\* with its error message, and the program is killed
ThreadTimeout(id) ==
    /\ id \in DOMAIN threads
    /\ threads[id].pc = "except TimeoutExpired"
    /\ running_processes' =
            [running_processes EXCEPT
                ![id].status = "timeout",
                ![id].error = <<"Process ", ToString(id), " timed out after ",
                                "timeout", " seconds">>]
    /\ popen' = [popen EXCEPT ![id] = process_kill(@)]
    /\ threads' = [threads EXCEPT ![id].pc = "harvest"]
    /\ UNCHANGED <<loaderVars, last, executor, process_counter, calls>>

\* execution_thread, except TimeoutExpired: the remaining output is read
\* and stored, and the timeout is logged; an exception of the logger call
\* leaves the handler
ThreadHarvest(id) ==
    /\ id \in DOMAIN threads
    /\ threads[id].pc = "harvest"
    /\ running_processes' =
            [running_processes EXCEPT
                ![id].stdout = IF threads[id].program.capture_output
                               THEN <<"stdout">> ELSE @,
                ![id].stderr = IF threads[id].program.capture_output
                               THEN <<"stderr">> ELSE @]
    /\ threads' = [threads EXCEPT ![id].pc = "finally",
                                  ![id].raised = LoggerRaises]
    /\ UNCHANGED <<loaderVars, last, executor, process_counter, calls, popen>>

\* execution_thread, except Exception: the record becomes 'error' with the
\* exception's text, and the failure is logged; an exception of the logger
\* call leaves the handler
ThreadError(id) ==
    /\ id \in DOMAIN threads
    /\ threads[id].pc = "except Exception"
    /\ running_processes' =
            [running_processes EXCEPT ![id].status = "error",
                                      ![id].error = <<threads[id].exc>>]
    /\ threads' = [threads EXCEPT ![id].pc = "finally",
                                  ![id].raised = LoggerRaises]
    /\ UNCHANGED <<loaderVars, last, executor, process_counter, calls, popen>>

\* execution_thread, finally: a callback that was given is called with a
\* copy of the record; an exception it raises is caught and logged, and
\* the exception of the logger call leaves the worker where the executor
\* has no logger.  The thread ends, with the exception that left a handler
\* if there is one.
ThreadFinally(id) ==
    /\ id \in DOMAIN threads
    /\ threads[id].pc = "finally"
    /\ LET on_complete == threads[id].program.on_complete IN
        threads' =
            [threads EXCEPT
                ![id].pc = "ended",
                ![id].callbacks =
                    IF on_complete = "None" THEN @
                    ELSE Append(@,
                            [result |-> running_processes[id],
                             escaped |-> on_complete = "raises"
                                            /\ LoggerRaises])]
    /\ UNCHANGED <<loaderVars, last, executor, process_counter,
                   running_processes, calls, popen>>

\* what a kill call that gives up does: it logs a warning and returns
\* False, and raises the AttributeError where there is no logger
GiveUp == IF LoggerRaises THEN "AttributeError" ELSE "False"

\* kill, up to the try: the record is looked up, its status is tested and
\* its process object is fetched
KillCheck(id) ==
    /\ calls.kill[id].pc = "idle"
    /\ LET status == get_process_status(running_processes, id) IN
        IF status.status # "running" \/ status.process = None
        THEN calls' = [calls EXCEPT !.kill[id] = NotKilling(GiveUp)]
        ELSE calls' = [calls EXCEPT !.kill[id].pc = "process.kill"]
    /\ UNCHANGED <<loaderVars, last, executor, process_counter,
                   running_processes, threads, popen>>

\* kill: process.kill()
KillSignal(id) ==
    /\ calls.kill[id].pc = "process.kill"
    /\ popen' = [popen EXCEPT ![id] = process_kill(@)]
    /\ calls' = [calls EXCEPT !.kill[id].pc = "mark"]
    /\ UNCHANGED <<loaderVars, last, executor, process_counter,
                   running_processes, threads>>

\* kill: status['status'] = 'killed', then the log line and return True;
\* where there is no logger the log line raises, and so does the one of the
\* handler that catches it
KillMark(id) ==
    /\ calls.kill[id].pc = "mark"
    /\ running_processes' = [running_processes EXCEPT ![id].status = "killed"]
    /\ calls' = [calls EXCEPT !.kill[id] =
                    NotKilling(IF LoggerRaises THEN "AttributeError"
                               ELSE "True")]
    /\ UNCHANGED <<loaderVars, last, executor, process_counter, threads, popen>>

\* one executor of either module, nothing started on it, and no thread
\* inside it
InitExecutor ==
    /\ registered_commands = EmptyDict
    /\ command_endpoints = EmptyDict
    /\ commands_dir = MissingDir
    /\ phase = "startup"
    /\ discovery = NoPass
    /\ last = [op |-> "init"]
    /\ InitNoApi
    /\ executor \in Executors
    /\ process_counter = 0
    /\ running_processes = EmptyDict
    /\ calls = [execute |-> [k \in 1..MaxCalls |-> NotCalling],
                kill |-> [id \in 1..MaxCalls |-> NotKilling("")]]
    /\ threads = EmptyDict
    /\ popen = EmptyDict

NextExecutor ==
    \/ \E k \in 1..MaxCalls, program \in Programs :
            ExecuteProgramEnter(k, program)
    \/ \E k \in 1..MaxCalls : ExecuteProgramNextId(k)
    \/ \E k \in 1..MaxCalls : ExecuteProgramStore(k)
    \/ \E k \in 1..MaxCalls : ExecuteProgramStartThread(k)
    \/ \E k \in 1..MaxCalls : ExecuteProgramReturn(k)
    \/ \E id \in 1..MaxCalls : ThreadValidate(id)
    \/ \E id \in 1..MaxCalls : ThreadPopen(id)
    \/ \E id \in 1..MaxCalls : ProgramExits(id)
    \/ \E id \in 1..MaxCalls : ThreadCommunicate(id)
    \/ \E id \in 1..MaxCalls : ThreadCompleted(id)
    \/ \E id \in 1..MaxCalls : ThreadLogCompleted(id)
    \/ \E id \in 1..MaxCalls : ThreadTimeout(id)
    \/ \E id \in 1..MaxCalls : ThreadHarvest(id)
    \/ \E id \in 1..MaxCalls : ThreadError(id)
    \/ \E id \in 1..MaxCalls : ThreadFinally(id)
    \/ \E id \in 1..MaxCalls : KillCheck(id)
    \/ \E id \in 1..MaxCalls : KillSignal(id)
    \/ \E id \in 1..MaxCalls : KillMark(id)

SpecExecutor == InitExecutor /\ [][NextExecutor]_vars

\* callers inside execute_program, and their workers up to the start of the
\* external program: the part of the executor that hands out ids and
\* creates records
NextAllocation ==
    \/ \E k \in 1..MaxCalls, program \in Programs :
            ExecuteProgramEnter(k, program)
    \/ \E k \in 1..MaxCalls : ExecuteProgramNextId(k)
    \/ \E k \in 1..MaxCalls : ExecuteProgramStore(k)
    \/ \E k \in 1..MaxCalls : ExecuteProgramStartThread(k)
    \/ \E k \in 1..MaxCalls : ExecuteProgramReturn(k)
    \/ \E id \in 1..MaxCalls : ThreadValidate(id)
    \/ \E id \in 1..MaxCalls : ThreadPopen(id)

SpecAllocation == InitExecutor /\ [][NextAllocation]_vars

----------------------------------------------------------------------------
(* Claims about the registry *)

\* C1: add_command stores a descriptor and answers 200 only when its name is
\* absent; on a name already present it answers 409 and leaves the registry
\* as it was; whatever is called, a stored descriptor (name and handler)
\* stays stored as it is, under its own name.
C1_FirstWriterWins ==
    [][ /\ \A n \in DOMAIN registered_commands :
              /\ n \in DOMAIN registered_commands'
              /\ registered_commands'[n] = registered_commands[n]
        /\ \A n \in DOMAIN registered_commands' :
              registered_commands'[n].name = n
        /\ last'.op = "add_command" =>
              /\ (last'.ret.code = 200) <=>
                    /\ last'.arg.cls = "Command"
                    /\ last'.arg.name \notin DOMAIN registered_commands
              /\ last'.ret.code = 200 =>
                    /\ registered_commands'[last'.arg.name] = last'.arg
                    /\ DOMAIN registered_commands' =
                          DOMAIN registered_commands \cup {last'.arg.name}
              /\ last'.ret.code # 200 =>
                    registered_commands' = registered_commands
              /\ (last'.arg.cls = "Command"
                    /\ last'.arg.name \in DOMAIN registered_commands) =>
                    last'.ret.code = 409
      ]_vars

\* C1 witness: a second descriptor with another handler was offered under a
\* registered name, was refused with 409, and the first one is still stored
C1_Witness ==
    /\ last.op = "add_command"
    /\ last.ret.code = 409
    /\ last.arg.name \in DOMAIN registered_commands
    /\ registered_commands[last.arg.name].function # last.arg.function

\* C9: get(name) answers with a (result, status) pair in every case: 404 when
\* the name is not registered or is empty, and the stored descriptor with a
\* success status when it is registered.  Stated of get_command and of
\* CommandsLoader.__getitem__.
C9_GetReturnsPair ==
    /\ last.op = "get_command" =>
        /\ last.ret.shape = "pair"
        /\ (last.arg \notin DOMAIN registered_commands \/ Falsy(last.arg)) =>
              last.ret.code = 404
        /\ last.arg \in DOMAIN registered_commands =>
              /\ last.ret.code = 200
              /\ last.ret.cmd = registered_commands[last.arg]
    /\ last.op = "__getitem__" =>
        /\ last.ret.shape = "pair"
        /\ (last.arg \notin DOMAIN command_endpoints \/ Falsy(last.arg)) =>
              last.ret.code = 404
        /\ last.arg \in DOMAIN command_endpoints =>
              /\ last.ret.code = 200
              /\ last.ret.cmd = command_endpoints[last.arg].command

----------------------------------------------------------------------------
(* Claims about dispatch *)

\* a well-formed request on one of the two command dispatch routes
IsDispatch ==
    /\ last.op = "request"
    /\ last.route \in {"api/commands/execution", "api/command"}
    /\ last.req.body_kind # "malformed"

\* the request names a command: the key 'command' is in its merged arguments
HasName == "command" \in DOMAIN last.out.merged

Name == last.out.merged["command"]

\* the arguments of the request other than the command name
Arguments == DictWithout(last.out.merged, "command")

\* the declared arguments of a unit that are required
RequiredFields(unit) ==
    {ArgSpec(unit)[i].name : i \in {j \in 1..Len(ArgSpec(unit)) :
                                        ArgSpec(unit)[j].required}}

\* what the unit's business logic does with these arguments on this machine
LogicOutcome(unit, kwargs, env) ==
    IF unit = "shutdown" THEN shutdown_helper_function(kwargs, env)
    ELSE IF unit = "get_specs" THEN get_specs_helper_function(kwargs, env)
    ELSE show_popup_helper_function(kwargs, env)

\* C2: dispatching a name that is not registered answers 404 with an error
\* envelope whose message names the command, and calls no handler.
C2_UnknownCommandIs404 ==
    (IsDispatch /\ HasName /\ ~Falsy(Name)
        /\ Name \notin DOMAIN command_endpoints) =>
        /\ last.out.resp.http = 404
        /\ last.out.resp.status = "error"
        /\ Contains(last.out.resp.text, Name)
        /\ last.out.handlerCalls = 0

\* C3: dispatching a request whose JSON object has no 'command' key, or an
\* empty value under it, answers 400 with an error envelope and calls no
\* handler, whatever the registry contains.
C3_MissingNameIs400 ==
    (IsDispatch /\ last.req.body_kind = "dict"
        /\ (~HasName \/ Falsy(Name))) =>
        /\ last.out.resp.http = 400
        /\ last.out.resp.status = "error"
        /\ last.out.handlerCalls = 0

\* C4: dispatching a registered name calls that descriptor's handler exactly
\* once with the request's arguments without 'command', and when the
\* command's logic succeeds the answer is a success envelope with code 200.
C4_RegisteredCommandRuns ==
    (IsDispatch /\ HasName /\ Name \in DOMAIN command_endpoints) =>
        /\ last.out.handlerCalls = 1
        /\ last.out.handlerArgs = Arguments
        /\ (RequiredFields(Name) \subseteq DOMAIN Arguments
            /\ ~LogicOutcome(Name, Arguments, last.env).raised
            /\ LogicOutcome(Name, Arguments, last.env).code = 200) =>
              /\ last.out.resp.http = 200
              /\ last.out.resp.status = "success"

\* C5: a handler called without a required argument f answers 400 with a
\* message containing f and does not call the business logic; called with
\* every required argument it calls the business logic.
C5_RequiredArgEnforced ==
    (IsDispatch /\ last.out.handlerCalls = 1 /\ RequiredFields(Name) # {}) =>
        /\ \A f \in RequiredFields(Name) :
              f \notin DOMAIN last.out.handlerArgs =>
                  /\ last.out.resp.http = 400
                  /\ last.out.resp.status = "error"
                  /\ Contains(last.out.resp.text, f)
                  /\ last.out.helperCalls = 0
        /\ RequiredFields(Name) \subseteq DOMAIN last.out.handlerArgs =>
              last.out.helperCalls = 1

\* C6: no exception raised while a request is handled leaves the wrapper:
\* each is answered with a 500 error response carrying the exception's
\* message, and the request after a failed one is served from the same
\* registry.
C6_NoExceptionEscapes ==
    /\ [](last.op = "request" =>
            /\ ~last.out.escaped
            /\ last.out.exc # NoExc =>
                  /\ last.out.caught
                  /\ last.out.resp.http = 500
                  /\ last.out.resp.status = "error"
                  /\ last.out.resp.text = last.out.exc.msg)
    /\ [][(last.op = "request" /\ last.out.caught) =>
              /\ command_endpoints' = command_endpoints
              /\ phase' = "serving"
              /\ last'.op = "request" => ~last'.out.escaped]_vars

\* C6 witness: the business logic of a view raised (Tk without a display)
\* and the client got a 500 with that message
C6_Witness ==
    /\ last.op = "request"
    /\ last.out.caught
    /\ last.out.helperCalls = 1
    /\ last.out.exc.type = "TclError"
    /\ last.out.resp.http = 500
    /\ last.out.resp.text = last.out.exc.msg

\* C8: a handler wraps the (payload, code) of its business logic: code 200
\* gives a success envelope, any other code an error envelope with exactly
\* that code, and the message begins with the command's name.
C8_WrapperShape ==
    (IsDispatch /\ last.out.handlerCalls = 1
        /\ RequiredFields(Name) \subseteq DOMAIN last.out.handlerArgs
        /\ ~LogicOutcome(Name, last.out.handlerArgs, last.env).raised) =>
        LET h == LogicOutcome(Name, last.out.handlerArgs, last.env) IN
        /\ h.code = 200 => /\ last.out.resp.status = "success"
                           /\ last.out.resp.http = 200
        /\ h.code # 200 => /\ last.out.resp.status = "error"
                           /\ last.out.resp.http = h.code
        /\ Len(last.out.resp.text) > 0
        /\ last.out.resp.text[1] = Name

\* C10: with no command registered, listing signals Empty: the list
\* operation returns a status other than 200 and GET api/commands/list
\* answers 404 'No commands registered'.
C10_EmptyListIs404 ==
    /\ (last.op = "__getitem__" /\ Falsy(last.arg)
          /\ DOMAIN command_endpoints = {}) => last.ret.code # 200
    /\ (last.op = "request" /\ last.route = "api/commands/list"
          /\ last.req.body_kind # "malformed"
          /\ DOMAIN command_endpoints = {}) =>
            /\ last.out.resp.http = 404
            /\ last.out.resp.status = "error"
            /\ last.out.resp.text = <<"No commands registered">>

----------------------------------------------------------------------------
(* Claims about the envelope *)

\* the response sent by the last operation, if it sent one
LastResponse ==
    IF last.op = "request" THEN last.out.resp
    ELSE IF last.op = "response" THEN last.resp
    ELSE NoWire

\* C7: every response envelope has status 'error' only with an HTTP code of
\* 400 or more and status 'success' only with an HTTP code from 200 to 299.
C7_EnvelopeInvariant ==
    /\ LastResponse.status = "error" => LastResponse.http >= 400
    /\ LastResponse.status = "success" =>
          (LastResponse.http >= 200 /\ LastResponse.http <= 299)

----------------------------------------------------------------------------
(* Claims about discovery *)

\* the directory the last walk listed
WalkedDir == IF last.pass = "load_endpoints" THEN api_dir ELSE commands_dir

\* the names the last walker's registry holds now
Registered ==
    IF last.pass = "load_endpoints"
    THEN {r.rule[2] : r \in {x \in url_map : Len(x.rule) = 2}}
    ELSE IF last.pass = "_load_all_commands" THEN DOMAIN registered_commands
    ELSE DOMAIN command_endpoints

\* the children the walker takes for units
IsUnit(pass, u) ==
    IF pass = "discover_commands"
    THEN u.kind = "dir" /\ u.name \notin {"__pycache__", "blueprint_command", "disabled"}
    ELSE IF pass = "discover_commands_files"
    THEN u.kind = "py" /\ u.name \notin {"__init__", "blueprint_command", "Command",
                                         "legacy_to_command"}
    ELSE IF pass = "_load_all_commands"
    THEN u.kind = "py" /\ u.name \notin {"__init__", "Command"}
    ELSE /\ u.name \notin {"__init__", "blueprint_endpoint", "__pycache__",
                           "disabled"}
         /\ ~(u.kind = "py" /\ endswith_endpoint_py(u.name))

\* the units of the directory the last walk listed
UnitsWalked ==
    {WalkedDir.listing[i] : i \in {j \in 1..Len(WalkedDir.listing) :
                                      IsUnit(last.pass, WalkedDir.listing[j])}}

Failing == {"import_error", "import_raises", "register_raises", "no_register"}

\* C11: whatever the siblings and their order, a walk lets no exception out,
\* a unit that raises on import (ImportError or not), raises in register()
\* or has no register() is not registered, and every sibling that registers
\* is in the registry afterwards.
C11_DiscoveryIsolatesFailures ==
    (last.op = "walk" /\ WalkedDir.exists) =>
        /\ last.exc = NoExc
        /\ \A u \in UnitsWalked :
            /\ u.does \in Failing => u.name \notin Registered
            /\ u.does = "registers" => u.name \in Registered

Logged(event, name) ==
    \E i \in 1..Len(last.log) :
        last.log[i].event = event /\ last.log[i].unit = name

\* what the walker's registry held before the last walk, and holds now
RegistryNow ==
    IF last.pass = "_load_all_commands" THEN registered_commands
    ELSE command_endpoints

\* C13: when a walk meets a unit that registers under a name the registry
\* already holds, the earlier registration stays, the walk reports a
\* conflict for that name and not a successful registration, and no
\* exception leaves the walk; whichever walkers ran before.
C13_ConflictKeepsFirst ==
    (last.op = "walk" /\ last.pass \in CommandPasses /\ commands_dir.exists) =>
        \A u \in UnitsWalked :
            (u.does = "registers" /\ u.name \in DOMAIN last.before) =>
                /\ last.exc = NoExc
                /\ u.name \in DOMAIN RegistryNow
                /\ RegistryNow[u.name] = last.before[u.name]
                /\ Logged("add_failed", u.name) \/ Logged("conflict", u.name)
                /\ ~Logged("registered", u.name)

\* C14: a walk over a missing root returns 404, lets no exception out and
\* leaves an empty registry; a client started over a missing root either
\* does not start or starts with no command.
C14_MissingRootIs404 ==
    /\ (last.op = "walk" /\ ~WalkedDir.exists
            /\ last.pass \in {"discover_commands", "load_endpoints"}) =>
        /\ last.exc = NoExc
        /\ last.code = 404
        /\ Registered = {}
    /\ (last.op = "RemoteClient" /\ (~api_dir.exists \/ ~commands_dir.exists)) =>
        \/ last.exc # NoExc
        \/ command_endpoints = EmptyDict

----------------------------------------------------------------------------
(* Claims about routing and argument merging *)

\* the rules registered for the requested path
Matching == {r \in url_map : r.rule = last.path}

\* the methods a rule answers: the methods it was registered with, HEAD
\* where GET is, and OPTIONS
Allowed(r) ==
    r.methods \cup (IF "GET" \in r.methods THEN {"HEAD"} ELSE {}) \cup {"OPTIONS"}

\* paths of units whose register() gives methods = ['GET']
GetOnlyPaths ==
    {<<"api", "tree">>, <<"api", "auth">>, <<"api", "commands">>,
     <<"api", "commands", "list">>, <<"api", "health">>}

BodyFields ==
    IF last.req.body_kind = "dict" THEN last.req.body ELSE EmptyDict

\* C16: the arguments handed to the handler hold every key of the path
\* parameters, the query parameters and the JSON object body, each with the
\* value of the body if the body has the key, else of the query if the query
\* has it, else of the path; a body that is not a JSON object adds nothing.
C16_BodyOverQueryOverPath ==
    last.op = "merge" =>
        /\ DOMAIN last.out.merged =
              DOMAIN last.view_args \cup DOMAIN last.req.query \cup DOMAIN BodyFields
        /\ \A k \in DOMAIN last.out.merged :
              last.out.merged[k] =
                  IF k \in DOMAIN BodyFields THEN BodyFields[k]
                  ELSE IF k \in DOMAIN last.req.query THEN last.req.query[k]
                  ELSE last.view_args[k]

\* C16 witness: 'command' came from all three sources and 'message' from the
\* path and the query only; the handler got the body's command and the
\* query's message
C16_Witness ==
    /\ last.op = "merge"
    /\ last.req.body_kind = "dict"
    /\ "command" \in DOMAIN last.view_args
    /\ "command" \in DOMAIN last.req.query
    /\ DOMAIN last.req.body = {"command"}
    /\ "message" \in DOMAIN last.view_args
    /\ "message" \in DOMAIN last.req.query
    /\ last.out.merged["command"] = "nope"
    /\ last.out.merged["message"] = "from the query"

----------------------------------------------------------------------------
(* Claims about the program executor *)

\* the execute_program calls that have taken their id
AllocatedCalls ==
    {k \in 1..MaxCalls : calls.execute[k].pc \notin {"idle", "with self._lock"}}

\* the execute_program calls that have returned their id
ReturnedCalls == {k \in 1..MaxCalls : calls.execute[k].pc = "returned"}

\* C17: whatever the interleaving of the execute_program calls, the ids
\* taken so far differ from call to call and are 1, 2, ... in the order
\* they were taken, and every id a call has returned has a record in the
\* status table, whose status is never 'not_found'; the call returns
\* without waiting for the worker, whose record may still be 'starting' or
\* 'running'.
C17_IdsDistinctAndRecorded ==
    /\ \A j, k \in AllocatedCalls :
            j # k => calls.execute[j].process_id # calls.execute[k].process_id
    /\ {calls.execute[k].process_id : k \in AllocatedCalls} =
            1..Cardinality(AllocatedCalls)
    /\ process_counter = Cardinality(AllocatedCalls)
    /\ \A k \in ReturnedCalls :
            get_process_status(running_processes,
                               calls.execute[k].process_id).status
                # "not_found"

\* two calls have returned the ids 1 and 2 while the worker of one has made
\* its record 'running' and the worker of the other has not run yet
C17_Witness ==
    /\ ReturnedCalls = {1, 2}
    /\ calls.execute[1].process_id = 2
    /\ calls.execute[2].process_id = 1
    /\ running_processes[1].status = "starting"
    /\ running_processes[2].status = "running"
    /\ popen = EmptyDict

\* C18: once a record of the status table is in a terminal status
\* (completed, timeout, error, killed) no step of the worker thread or of
\* a kill call changes its status again: 'killed' is never overwritten with
\* 'completed' or 'error', and 'completed' is never overwritten with
\* 'error'.
C18_TerminalStatusIsFinal ==
    [][\A id \in DOMAIN running_processes :
            running_processes[id].status \in TerminalStatuses
                => running_processes'[id].status =
                        running_processes[id].status]_vars

\* the workers whose communicate raised TimeoutExpired: the program was
\* still running when its timeout expired
TimedOut == {id \in DOMAIN threads : threads[id].timed_out}

\* C19: when the program is still running as its timeout expires, the
\* worker has killed it (or it has ended meanwhile) before the output is
\* harvested, the captured stdout and stderr are in the record when the
\* worker has ended, and the record's status is then 'timeout'.
C19_TimeoutKillsAndHarvests ==
    \A id \in TimedOut :
        /\ threads[id].pc \in {"harvest", "finally", "ended"}
                => popen[id].state # "running"
        /\ threads[id].pc = "ended"
                => /\ running_processes[id].status = "timeout"
                   /\ threads[id].program.capture_output
                        => /\ running_processes[id].stdout # None
                           /\ running_processes[id].stderr # None

\* the executions whose program was valid, ended by itself before any
\* timeout, was the target of no kill call, and whose worker has ended
ExitedInTime ==
    {id \in DOMAIN popen :
        /\ popen[id].state = "exited"
        /\ ~threads[id].timed_out
        /\ calls.kill[id] = NotKilling("")
        /\ threads[id].pc = "ended"}

\* C20: with either executor, the record of a valid program that exited
\* before its timeout and was not killed is 'completed' when its worker has
\* ended, with the program's exit code as returncode and no error.
C20_ExitInTimeIsCompleted ==
    \A id \in ExitedInTime :
        /\ running_processes[id].status = "completed"
        /\ running_processes[id].returncode = <<threads[id].program.code>>
        /\ running_processes[id].error = None

\* C21: every step that writes the status table (a new record, or a new
\* status, returncode, output, error or process handle of a record) is
\* taken while a thread holds the executor's lock.
C21_TableWrittenUnderLock ==
    [][running_processes' # running_processes => executor.lock # 0]_vars

\* the ids on which a kill call has returned or raised
KillAnswered ==
    {id \in 1..MaxCalls :
        calls.kill[id].pc = "idle" /\ calls.kill[id].ret # ""}

\* C22: a kill call answers True or False; when it has answered True the
\* external process of the record was killed, and the record's status is
\* 'killed' once its worker has ended.
C22_KillAnswersTrueIffKilled ==
    \A id \in KillAnswered :
        /\ calls.kill[id].ret \in {"True", "False"}
        /\ calls.kill[id].ret = "True"
            => /\ id \in DOMAIN popen
               /\ popen[id].state = "killed"
               /\ threads[id].pc = "ended"
                    => running_processes[id].status = "killed"

\* the executions started with an on_complete callback
WithCallback ==
    {id \in DOMAIN threads : threads[id].program.on_complete # "None"}

\* C28: the callback of an execution is not called before the worker's
\* handlers are through and is called once when the worker has ended; it
\* is given the record as it is then, in a terminal status; no exception
\* of the callback leaves the worker.
C28_CallbackOnceAfterTerminal ==
    \A id \in WithCallback :
        /\ Len(threads[id].callbacks) =
                (IF threads[id].pc = "ended" THEN 1 ELSE 0)
        /\ \A i \in 1..Len(threads[id].callbacks) :
                /\ threads[id].callbacks[i].result.status
                        \in TerminalStatuses
                /\ ~threads[id].callbacks[i].escaped

----------------------------------------------------------------------------
(* Claims about startup, naming and the walks *)

\* C23: when RemoteClient(...) has been called the client is built: no
\* exception left the constructor, the routes it adds itself are in the url
\* map, and the registry holds what the discovery of the commands
\* directory registers, so that a server can be started on it.
C23_BuiltBeforeServing ==
    last.op = "RemoteClient"
        => /\ last.exc = NoExc
           /\ StaticRoutes \subseteq url_map
           /\ \A i \in 1..Len(commands_dir.listing) :
                (/\ commands_dir.listing[i].kind = "dir"
                 /\ commands_dir.listing[i].name \notin excluded_dirs
                 /\ commands_dir.listing[i].does = "registers")
                    => commands_dir.listing[i].name
                            \in DOMAIN command_endpoints

EndpointsWalked ==
    /\ last.op = "walk"
    /\ last.pass = "load_endpoints"
    /\ api_dir.exists
    /\ last.exc = NoExc

\* the children of the api directory, as the last walk listed them
ApiChildren == {api_dir.listing[i] : i \in 1..Len(api_dir.listing)}

\* the url map has a rule for this path
HasRule(path) == \E r \in url_map : r.rule = path

\* C25: after the endpoint walk over an api directory that holds the
\* commands directory of the repository (whose endpoint.py imports a name
\* utils.endpoints_loader does not define), the composite's own rule
\* api/commands is registered and its nested leaf units are registered
\* under the parent's path plus their name, api/commands/list and
\* api/commands/execution.
C25_NestedUnitsUnderParentPath ==
    EndpointsWalked =>
        \A u \in ApiChildren :
            (u.name = "commands" /\ u.kind = "dir" /\ u.does = "import_error")
                => /\ HasRule(<<"api", "commands">>)
                   /\ HasRule(<<"api", "commands", "list">>)
                   /\ HasRule(<<"api", "commands", "execution">>)

\* C26: after the endpoint walk no rule was added for an excluded child,
\* and every regular source file that is not excluded, is not named
\* endpoint.py and registers is registered as a leaf unit under its
\* filename without extension (my_endpoint.py as api/my_endpoint).
C26_ChildrenClassified ==
    EndpointsWalked =>
        \A u \in ApiChildren :
            /\ u.name \in excluded => ~HasRule(<<"api", u.name>>)
            /\ (/\ u.name \notin excluded
                 /\ u.kind = "py"
                 /\ u.name # "endpoint"
                 /\ u.does = "registers") => HasRule(<<"api", u.name>>)

\* the last operation was a walk of discover_commands or of the endpoints
\* loader over an existing directory
ScanDone ==
    /\ last.op = "walk"
    /\ last.pass \in {"discover_commands", "load_endpoints"}
    /\ WalkedDir.exists

\* the directories the last walk listed that have no entry file
WithoutEntryFile == {u \in UnitsWalked : u.does = "no_entry_file"}

\* C27: when discover_commands or the endpoint walk meets a directory
\* without its entry file, nothing is registered under the directory's
\* name, no exception leaves the walk, the walk answers 200, and every
\* sibling that registers is registered.
C27_MissingEntryFileIsSkipped ==
    (ScanDone /\ WithoutEntryFile # {}) =>
        /\ last.exc = NoExc
        /\ last.code = 200
        /\ \A u \in WithoutEntryFile : u.name \notin Registered
        /\ \A u \in UnitsWalked : u.does = "registers" => u.name \in Registered

\* each of the two walks met a directory without entry file before a
\* sibling that registers
C27_Witness ==
    /\ ScanDone
    /\ Len(WalkedDir.listing) = 2
    /\ WalkedDir.listing[1] \in WithoutEntryFile
    /\ WalkedDir.listing[2] \in UnitsWalked
    /\ WalkedDir.listing[2].does = "registers"
    /\ Registered = {WalkedDir.listing[2].name}
    /\ last.pass = "load_endpoints"


----------------------------------------------------------------------------
(* Claims about the api tree *)

\* the level of a tree a path leads to; no level when a segment is missing
RECURSIVE NodeAt(_, _)
NodeAt(tree, parts) ==
    IF parts = <<>> THEN tree
    ELSE IF Head(parts) \in DOMAIN tree THEN NodeAt(tree[Head(parts)], Tail(parts))
    ELSE EmptyDict

\* C30: in the tree GET /api/tree answers with, every static rule of the app
\* is found along its segments at a level whose '_methods' lists exactly the
\* rule's methods without OPTIONS and HEAD, no segment is called '_methods',
\* and a dynamic rule has no level
C30_TreeRepresentsStaticRules ==
    last.op = "tree" =>
        \A r \in iter_rules(url_map) :
            IF is_dynamic(r) THEN r.rule[1] \notin DOMAIN last.out
            ELSE LET node == NodeAt(last.out, r.rule)
                     kept == RuleAllows(r) \ {"OPTIONS", "HEAD"}
                 IN /\ "_methods" \in DOMAIN node
                    /\ Len(node["_methods"]) = Cardinality(kept)
                    /\ {node["_methods"][i] : i \in 1..Len(node["_methods"])} = kept
                    /\ \A i \in 1..Len(r.rule) : r.rule[i] # "_methods"

\* C30 witness: the tree was built over a composite and its nested units:
\* /api/commands carries its own methods next to the levels of list and
\* execution, and the static folder's rule left nothing
C30_Witness ==
    /\ last.op = "tree"
    /\ \E r \in url_map : r.rule = <<"api", "commands", "list">>
    /\ NodeAt(last.out, <<"api", "commands">>)["_methods"] = <<"GET">>
    /\ "list" \in DOMAIN NodeAt(last.out, <<"api", "commands">>)
    /\ NodeAt(last.out, <<"api", "commands", "execution">>)["_methods"] = <<"POST">>
    /\ "static" \notin DOMAIN last.out


----------------------------------------------------------------------------
(* Claims about publishing the registry *)

\* what a whole call of discover_commands leaves for the directory
CompleteRegistry == discover_commands_walk(commands_dir, command_endpoints).reg

\* C29: while discover_commands runs next to readers, command_endpoints is
\* the empty registry of the new loader or the complete result of a call,
\* never a partly filled one; what get_command_list and 'in' answered is one
\* of the two; and once a call has returned, command_endpoints is and stays
\* the complete result, so a second call over the same tree gives the same
\* names
C29_RegistryPublishedWhole ==
    /\ command_endpoints \in {EmptyDict, CompleteRegistry}
    /\ last.op = "get_command_list" =>
          last.out \in {EmptyDict, CompleteRegistry}
    /\ last.op = "__contains__" =>
          \/ last.out = (last.arg \in DOMAIN CompleteRegistry)
          \/ ~last.out /\ last.passes = 0
    /\ discovery.passes >= 1 =>
          DOMAIN command_endpoints = DOMAIN CompleteRegistry
    /\ (last.op \in {"get_command_list", "__contains__"} /\ last.passes >= 1) =>
          IF last.op = "get_command_list" THEN last.out = CompleteRegistry
          ELSE last.out = (last.arg \in DOMAIN CompleteRegistry)

\* C29 witness: a second call had filled its local dict with one of two
\* commands when another thread listed the registry and got both
C29_Witness ==
    /\ last.op = "get_command_list"
    /\ last.pc = "for" /\ last.passes = 1 /\ last.i = 2
    /\ discovery.pc = "for" /\ discovery.i = 2
    /\ Cardinality(DOMAIN discovery.registered_commands) = 1
    /\ Cardinality(DOMAIN last.out) = 2
    /\ last.out = CompleteRegistry

============================================================================
